---- MODULE Spec2Model ----
(***************************************************************************)
(* A model of the Stereotype client (src/src/stereotype_client.js): the    *)
(* client object, its setters, its request operations, and the transport   *)
(* (superagent) that carries each request and answers it.                  *)
(*                                                                         *)
(* JavaScript strings are sequences of one-character strings, so that the  *)
(* string functions of the code (indexOf, substring, split, toLowerCase,   *)
(* trim, join, encodeURIComponent) are computed and not assumed.           *)
(***************************************************************************)
EXTENDS Integers, Sequences, FiniteSets, TLC

VARIABLES
  client,       \* the StereotypeClient object (its fields)
  call,         \* the operation call in progress or last made, and its promise
  net,          \* the requests handed to the transport and not yet answered
  log,          \* every request the transport has sent for the current call
  subsegments,  \* the tracing subsegments opened for the current call
  answers,      \* the answers the transport has handed to the handlers of the call
  setterCalls,  \* the setter calls made on the client, in order
  constructed   \* the arguments the client was constructed with

vars == <<client, call, net, log, subsegments, answers, setterCalls, constructed>>

(***************************************************************************)
(* String literals of the source.                                          *)
(***************************************************************************)
defaultConf_baseUrl == <<"h", "t", "t", "p", "s", ":", "/", "/", "s", "t", "e", "r", "e", "o", "t", "y", "p", "e", ".", "t", "r", "d", "l", "n", "k", ".", "c", "i", "m", "p", "r", "e", "s", "s", ".", "i", "o">>

STR_Bearer == <<"B", "e", "a", "r", "e", "r", " ">>

STR_v1_templates == <<"/", "v", "1", "/", "t", "e", "m", "p", "l", "a", "t", "e", "s">>

STR_v1_materializations == <<"/", "v", "1", "/", "m", "a", "t", "e", "r", "i", "a", "l", "i", "z", "a", "t", "i", "o", "n", "s">>

STR_materializations == <<"/", "m", "a", "t", "e", "r", "i", "a", "l", "i", "z", "a", "t", "i", "o", "n", "s">>

STR_v1_expand == <<"/", "v", "1", "/", "e", "x", "p", "a", "n", "d">>

STR_v1_swagger == <<"/", "v", "1", "/", "s", "w", "a", "g", "g", "e", "r", ".", "j", "s", "o", "n">>

STR_livecheck == <<"l", "i", "v", "e", "c", "h", "e", "c", "k">>

STR_skip_cache == <<"?", "s", "k", "i", "p", "_", "c", "a", "c", "h", "e", "=">>

STR_public_eq == <<"?", "p", "u", "b", "l", "i", "c", "=">>

STR_amp_skip_cache == <<"&", "s", "k", "i", "p", "_", "c", "a", "c", "h", "e", "=">>

STR_true == <<"t", "r", "u", "e">>

STR_false == <<"f", "a", "l", "s", "e">>

STR_undefined == <<"u", "n", "d", "e", "f", "i", "n", "e", "d">>

STR_null == <<"n", "u", "l", "l">>

STR_application_json == <<"a", "p", "p", "l", "i", "c", "a", "t", "i", "o", "n", "/", "j", "s", "o", "n">>

STR_respond_async == <<"r", "e", "s", "p", "o", "n", "d", "-", "a", "s", "y", "n", "c">>

STR_v1 == <<"v", "1">>

STR_materializations_slash == <<"/", "m", "a", "t", "e", "r", "i", "a", "l", "i", "z", "a", "t", "i", "o", "n", "s", "/">>

STR_ESOCKETTIMEDOUT == <<"E", "S", "O", "C", "K", "E", "T", "T", "I", "M", "E", "D", "O", "U", "T">>

STR_postprocessors == <<"p", "o", "s", "t", "p", "r", "o", "c", "e", "s", "s", "o", "r", "s">>

STR_text_dust == <<"t", "e", "x", "t", "/", "d", "u", "s", "t">>

STR_text_mustache == <<"t", "e", "x", "t", "/", "m", "u", "s", "t", "a", "c", "h", "e">>

STR_text_handlebars == <<"t", "e", "x", "t", "/", "h", "a", "n", "d", "l", "e", "b", "a", "r", "s">>

STR_text_x_handlebars_template == <<"t", "e", "x", "t", "/", "x", "-", "h", "a", "n", "d", "l", "e", "b", "a", "r", "s", "-", "t", "e", "m", "p", "l", "a", "t", "e">>

STR_edie_json == <<"a", "p", "p", "l", "i", "c", "a", "t", "i", "o", "n", "/", "v", "n", "d", ".", "c", "i", "m", "p", "r", "e", "s", "s", ".", "e", "d", "i", "e", "+", "j", "s", "o", "n">>

STR_ediecsv_json == <<"a", "p", "p", "l", "i", "c", "a", "t", "i", "o", "n", "/", "v", "n", "d", ".", "c", "i", "m", "p", "r", "e", "s", "s", ".", "e", "d", "i", "e", "c", "s", "v", "+", "j", "s", "o", "n">>

STR_mjml == <<"m", "j", "m", "l">>

STR_xlsx == <<"x", "l", "s", "x">>

CURIE_SEPARATOR == ";"

\* JavaScript undefined / null, as values no string is equal to.
Undefined == <<"#undefined">>

Null == <<"#null">>

(***************************************************************************)
(* String functions of JavaScript.                                         *)
(***************************************************************************)
RECURSIVE IndexOfFrom(_, _, _)
IndexOfFrom(s, c, i) ==
  IF i > Len(s) THEN -1
  ELSE IF s[i] = c THEN i - 1
  ELSE IndexOfFrom(s, c, i + 1)

\* String.prototype.indexOf for a one-character needle: 0-based, -1 if absent.
indexOf(s, c) == IndexOfFrom(s, c, 1)

\* String.prototype.substring(start): the characters from 0-based index start.
substring(s, start) ==
  LET from == IF start < 0 THEN 0 ELSE IF start > Len(s) THEN Len(s) ELSE start
  IN  SubSeq(s, from + 1, Len(s))

RECURSIVE split(_, _)
\* String.prototype.split for a one-character separator: never an empty array.
split(s, sep) ==
  LET i == indexOf(s, sep)
  IN  IF i = -1 THEN <<s>>
      ELSE <<SubSeq(s, 1, i)>> \o split(SubSeq(s, i + 2, Len(s)), sep)

UpperCaseLetters == <<"A", "B", "C", "D", "E", "F", "G", "H", "I", "J", "K", "L", "M", "N", "O", "P", "Q", "R", "S", "T", "U", "V", "W", "X", "Y", "Z">>

LowerCaseLetters == <<"a", "b", "c", "d", "e", "f", "g", "h", "i", "j", "k", "l", "m", "n", "o", "p", "q", "r", "s", "t", "u", "v", "w", "x", "y", "z">>

lowerChar(c) ==
  IF \E i \in 1..Len(UpperCaseLetters) : UpperCaseLetters[i] = c
  THEN LowerCaseLetters[CHOOSE i \in 1..Len(UpperCaseLetters) : UpperCaseLetters[i] = c]
  ELSE c

toLowerCase(s) == [i \in 1..Len(s) |-> lowerChar(s[i])]

RECURSIVE trimStart(_)
trimStart(s) == IF s # <<>> /\ Head(s) = " " THEN trimStart(Tail(s)) ELSE s

RECURSIVE trimEnd(_)
trimEnd(s) ==
  IF s # <<>> /\ s[Len(s)] = " " THEN trimEnd(SubSeq(s, 1, Len(s) - 1)) ELSE s

trim(s) == trimEnd(trimStart(s))

RECURSIVE join(_, _)
\* Array.prototype.join.
join(parts, sep) ==
  IF parts = <<>> THEN <<>>
  ELSE IF Len(parts) = 1 THEN parts[1]
  ELSE parts[1] \o sep \o join(Tail(parts), sep)

RECURSIVE includesAt(_, _, _)
includesAt(s, needle, i) ==
  IF i + Len(needle) - 1 > Len(s) THEN FALSE
  ELSE IF SubSeq(s, i, i + Len(needle) - 1) = needle THEN TRUE
  ELSE includesAt(s, needle, i + 1)

\* String.prototype.includes.
includes(s, needle) == includesAt(s, needle, 1)

\* Array.prototype.includes.
arrayIncludes(arr, x) == \E i \in 1..Len(arr) : arr[i] = x

\* The characters encodeURIComponent leaves alone.
UnreservedMarks == {"-", "_", ".", "!", "~", "*", "'", "(", ")"}

Digits == {"0", "1", "2", "3", "4", "5", "6", "7", "8", "9"}

isUnreserved(c) ==
  \/ c \in UnreservedMarks
  \/ c \in Digits
  \/ arrayIncludes(UpperCaseLetters, c)
  \/ arrayIncludes(LowerCaseLetters, c)

\* The percent-encoding of the reserved characters the model's ids use.
percentEncode(c) ==
  CASE c = "/" -> <<"%", "2", "F">>
    [] c = " " -> <<"%", "2", "0">>
    [] c = "?" -> <<"%", "3", "F">>
    [] c = "%" -> <<"%", "2", "5">>
    [] c = ":" -> <<"%", "3", "A">>
    [] c = "#" -> <<"%", "2", "3">>

RECURSIVE encodeURIComponent(_)
encodeURIComponent(s) ==
  IF s = <<>> THEN <<>>
  ELSE (IF isUnreserved(Head(s)) THEN <<Head(s)>> ELSE percentEncode(Head(s)))
       \o encodeURIComponent(Tail(s))

\* JavaScript truthiness of a value that is undefined, null or a string.
Truthy(v) == v # Undefined /\ v # Null /\ v # <<>>

(***************************************************************************)
(* Numbers as they appear in header values and URLs.                       *)
(***************************************************************************)
DigitChars == <<"0", "1", "2", "3", "4", "5", "6", "7", "8", "9">>

RECURSIVE numberToString(_)
\* String(n) for a non-negative integer n.
numberToString(n) ==
  IF n < 10 THEN <<DigitChars[n + 1]>>
  ELSE numberToString(n \div 10) \o <<DigitChars[(n % 10) + 1]>>

(***************************************************************************)
(* The client object.                                                      *)
(***************************************************************************)
defaultConf_timeout == 5000

defaultConf_deadline == 60000

defaultConf_numRetries == 3

supportedContentTypes ==
  <<STR_text_dust, STR_text_mustache, STR_text_handlebars,
    STR_text_x_handlebars_template, STR_edie_json, STR_ediecsv_json>>

supportedPostProcessors == <<STR_mjml, STR_xlsx>>

\* options.key || fallback, for a string option (a missing key reads undefined).
stringOption(options, key, fallback) ==
  IF key \in DOMAIN options /\ Truthy(options[key]) THEN options[key] ELSE fallback

\* options.key || fallback, for a numeric option (0 is falsy).
numberOption(options, key, fallback) ==
  IF key \in DOMAIN options /\ options[key] # 0 THEN options[key] ELSE fallback

\* options.key || false, for a boolean option.
booleanOption(options, key) ==
  IF key \in DOMAIN options THEN options[key] ELSE FALSE

RECURSIVE lastIndexOfFrom(_, _, _)
lastIndexOfFrom(s, c, i) ==
  IF i < 1 THEN -1 ELSE IF s[i] = c THEN i - 1 ELSE lastIndexOfFrom(s, c, i - 1)

\* A slip: the prefix is cut at the last space, not at the first.
stripTokenPrefix_lastSpace(accessToken) ==
  substring(accessToken, lastIndexOfFrom(accessToken, " ", Len(accessToken)) + 1)

\* this.accessToken.substring(this.accessToken.indexOf(' ') + 1)
stripTokenPrefix(accessToken) ==
  substring(accessToken, indexOf(accessToken, " ") + 1)

\* new StereotypeClient(accessToken, options): the fields of the new object.
StereotypeClient(accessToken, options) ==
  LET url == stringOption(options, "baseUrl", defaultConf_baseUrl)
  IN  [accessToken |-> stripTokenPrefix(accessToken),
       baseUrl |-> IF url[Len(url)] = "/" THEN SubSeq(url, 1, Len(url) - 1) ELSE url,
       timeout |-> numberOption(options, "timeout", defaultConf_timeout),
       deadline |-> numberOption(options, "deadline", defaultConf_deadline),
       numRetries |-> numberOption(options, "numRetries", defaultConf_numRetries),
       isBinaryResponse |-> booleanOption(options, "isBinaryResponse"),
       curies |-> <<>>,
       blacklistHeader |-> Undefined,
       whitelistHeader |-> Undefined,
       acceptHeader |-> Undefined,
       acceptPreferenceHeader |-> Undefined,
       curieHeader |-> Undefined,
       maximumCrawlDepthHeader |-> Undefined,
       crawlerSoftErrors |-> Undefined]

\* String(value) for undefined, null or a string.
String(v) ==
  IF v = Undefined THEN STR_undefined ELSE IF v = Null THEN STR_null ELSE v

\* Whether a property name is an array index, which Object.keys lists first.
isArrayIndex(k) ==
  /\ k # <<>>
  /\ \A i \in 1..Len(k) : k[i] \in Digits
  /\ (Len(k) > 1 => k[1] # "0")

RECURSIVE digitsValue(_)
digitsValue(k) ==
  IF k = <<>> THEN 0
  ELSE 10 * digitsValue(SubSeq(k, 1, Len(k) - 1))
       + (CHOOSE d \in 0..9 : DigitChars[d + 1] = k[Len(k)])

\* Whether key a is listed before key b by Object.keys when b was added later.
keyBefore(a, b) ==
  IF isArrayIndex(b)
  THEN isArrayIndex(a) /\ digitsValue(a) < digitsValue(b)
  ELSE TRUE

\* this.curies[rel] = replacement, the object kept as the list of its entries
\* in the order Object.keys gives them.
setCurieEntry(curies, rel, replacement) ==
  IF \E i \in 1..Len(curies) : curies[i][1] = rel
  THEN [i \in 1..Len(curies) |->
          IF curies[i][1] = rel THEN <<rel, replacement>> ELSE curies[i]]
  ELSE LET n == Cardinality({i \in 1..Len(curies) : keyBefore(curies[i][1], rel)})
       IN  SubSeq(curies, 1, n) \o <<<<rel, replacement>>>>
           \o SubSeq(curies, n + 1, Len(curies))

_constructCurieHeader(c) ==
  join([i \in 1..Len(c.curies) |->
          c.curies[i][1] \o <<CURIE_SEPARATOR>> \o c.curies[i][2]], <<",">>)

_getUrl(c, path) == c.baseUrl \o path

(***************************************************************************)
(* JavaScript values of mixed type (the isPublic argument), tagged.        *)
(***************************************************************************)
JsUndefined == [t |-> "undefined"]

JsNull == [t |-> "null"]

JsBoolean(b) == [t |-> "boolean", b |-> b]

JsString(s) == [t |-> "string", s |-> s]

JsNumber(n) == [t |-> "number", n |-> n]

jsTruthy(x) ==
  CASE x.t = "undefined" -> FALSE
    [] x.t = "null" -> FALSE
    [] x.t = "boolean" -> x.b
    [] x.t = "string" -> x.s # <<>>
    [] x.t = "number" -> x.n # 0

\* Whether x.toString() throws a TypeError.
toStringThrows(x) == x.t \in {"undefined", "null"}

\* x.toString(), where it does not throw.
jsToString(x) ==
  CASE x.t = "boolean" -> (IF x.b THEN STR_true ELSE STR_false)
    [] x.t = "string" -> x.s
    [] x.t = "number" -> numberToString(x.n)

\* A parameter with the default value false: undefined reads as false.
defaultFalse(x) == IF x.t = "undefined" THEN JsBoolean(FALSE) ELSE x

isPublicFlag_caseSensitive(isPublic) ==
  IF jsTruthy(isPublic)
  THEN JsBoolean(jsToString(isPublic) = STR_true)
  ELSE isPublic

\* isPublic && (isPublic.toString().toLowerCase() === 'true')
isPublicFlag(isPublic) ==
  IF jsTruthy(isPublic)
  THEN JsBoolean(toLowerCase(jsToString(isPublic)) = STR_true)
  ELSE isPublic

(***************************************************************************)
(* Content types.  A content type argument is null, a string the parser    *)
(* rejects, or a string of the form  type; key=value; key="value" ...      *)
(* kept as its raw media type and its raw parameters in order.             *)
(***************************************************************************)
NullContentType == [form |-> "null"]

InvalidContentType == [form |-> "invalid"]

ContentType(type, parameters) ==
  [form |-> "valid", type |-> type, parameters |-> parameters]

Param(key, value, quoted) == [key |-> key, value |-> value, quoted |-> quoted]

\* The raw text of a parameter, as written in the header value.
paramText(p) ==
  <<";", " ">> \o p.key \o <<"=">>
  \o (IF p.quoted THEN <<"\"">> \o p.value \o <<"\"">> ELSE p.value)

RECURSIVE paramsText(_)
paramsText(ps) == IF ps = <<>> THEN <<>> ELSE paramText(Head(ps)) \o paramsText(Tail(ps))

\* The string passed as the contentType argument.
contentTypeText(ct) ==
  CASE ct.form = "null" -> Null
    [] ct.form = "invalid" -> <<>>
    [] ct.form = "valid" -> ct.type \o paramsText(ct.parameters)

\* The characters of a token of a media type or of a parameter: letters,
\* digits and these marks (the apostrophe and the grave accent besides).
TokenMarks == {"!", "#", "$", "%", "&", "*", "+", ".", "^", "_", "|", "~", "-"}

isToken(s) ==
  /\ s # <<>>
  /\ \A i \in 1..Len(s) :
       \/ s[i] \in TokenMarks
       \/ s[i] \in Digits
       \/ \E k \in 1..26 : s[i] = UpperCaseLetters[k] \/ s[i] = LowerCaseLetters[k]

\* type "/" subtype, both tokens.
isMediaType(s) ==
  LET parts == split(s, "/")
  IN  Len(parts) = 2 /\ isToken(parts[1]) /\ isToken(parts[2])

\* A parameter the parser reads: its name a token, its value a token or a
\* quoted string (the quoted strings here hold no quote and no backslash).
isParameter(p) ==
  /\ isToken(p.key)
  /\ IF p.quoted
     THEN \A i \in 1..Len(p.value) : p.value[i] \notin {"\"", "\\"}
     ELSE isToken(p.value)

\* contentTypeParser.parse throws a TypeError for null, for a string whose
\* media type is not type/subtype and for a parameter it cannot read.
parseThrows(ct) ==
  \/ ct.form # "valid"
  \/ ~isMediaType(trim(ct.type))
  \/ \E i \in 1..Len(ct.parameters) : ~isParameter(ct.parameters[i])

\* contentTypeParser.parse: the media type lower-cased and trimmed, the
\* parameter names lower-cased, the values without their quotes.
parse(ct) ==
  [type |-> toLowerCase(trim(ct.type)),
   parameters |-> [i \in 1..Len(ct.parameters) |->
                     <<toLowerCase(ct.parameters[i].key), ct.parameters[i].value>>]]

\* parsed.parameters[name]: the last parameter of that name, or undefined.
parameter(parsed, name) ==
  LET idx == {i \in 1..Len(parsed.parameters) : parsed.parameters[i][1] = name}
  IN  IF idx = {} THEN Undefined
      ELSE parsed.parameters[CHOOSE i \in idx : \A j \in idx : j <= i][2]

postProcessorsOf_unfiltered(parsedContentType) ==
  LET raw == parameter(parsedContentType, STR_postprocessors)
      parts == split(IF Truthy(raw) THEN raw ELSE <<>>, ",")
  IN  [i \in 1..Len(parts) |-> trim(toLowerCase(parts[i]))]

\* .split(',').map((pp) => pp.toLowerCase().trim()).filter((pp) => pp !== '')
postProcessorsOf(parsedContentType) ==
  LET raw == parameter(parsedContentType, STR_postprocessors)
      parts == split(IF Truthy(raw) THEN raw ELSE <<>>, ",")
      mapped == [i \in 1..Len(parts) |-> trim(toLowerCase(parts[i]))]
  IN  SelectSeq(mapped, LAMBDA pp : pp # <<>>)

_isSupportedContentType_postProcessorsOnly(contentType) ==
  LET postProcessors == postProcessorsOf(parse(contentType))
  IN  \A i \in 1..Len(postProcessors) :
        arrayIncludes(supportedPostProcessors, postProcessors[i])

\* StereotypeClient._isSupportedContentType, for a content type that parses.
_isSupportedContentType(contentType) ==
  LET parsedContentType == parse(contentType)
      validContentType == arrayIncludes(supportedContentTypes, parsedContentType.type)
      postProcessors == postProcessorsOf(parsedContentType)
      validPostProcessor ==
        \A i \in 1..Len(postProcessors) :
          arrayIncludes(supportedPostProcessors, postProcessors[i])
  IN  validContentType /\ validPostProcessor

(***************************************************************************)
(* Requests, as the code builds them on the transport (superagent).        *)
(***************************************************************************)
HeaderNames ==
  {"authorization", "accept", "content-type", "prefer",
   "x-cimpress-template-public", "x-cimpress-link-timeout",
   "x-cimpress-rel-blacklist", "x-cimpress-rel-whitelist",
   "x-cimpress-accept-preference", "x-cimpress-rel-curies",
   "x-cimpress-max-depth", "x-cimpress-crawler-soft-errors"}

\* request(method, url): nothing set yet.  maxRetries 0: .retry() not called.
request(method, url) ==
  [method |-> method, url |-> url,
   headers |-> [h \in HeaderNames |-> Undefined],
   body |-> Undefined, responseType |-> "default",
   response |-> 0, deadline |-> 0, maxRetries |-> 0]

\* req.set(name, value); header names are case-insensitive.
set(req, name, value) == [req EXCEPT !.headers[name] = value]

\* req.timeout({response, deadline})
timeout(req, response, deadline) ==
  [req EXCEPT !.response = response, !.deadline = deadline]

\* req.retry(count)
retry(req, count) == [req EXCEPT !.maxRetries = count]

\* req.responseType('blob')
blob(req) == [req EXCEPT !.responseType = "blob"]

\* req.send(body)
send(req, body) == [req EXCEPT !.body = body]

\* .set('Authorization', 'Bearer ' + self.accessToken)
authorize(c, req) == set(req, "authorization", STR_Bearer \o c.accessToken)

\* (skipCache ? `?skip_cache=${Math.random()}` : '')
skipCacheQuery(skipCache, random) ==
  IF skipCache THEN STR_skip_cache \o random ELSE <<>>

\* The value of the x-cimpress-rel-curies header, undefined when not sent.
curiesHeader(c) ==
  IF Truthy(c.curieHeader) THEN c.curieHeader
  ELSE IF Len(c.curies) # 0 THEN _constructCurieHeader(c)
  ELSE Undefined

\* if (self.xHeader) req.set(name, self.xHeader)
setIfTruthy(req, name, value) == IF Truthy(value) THEN set(req, name, value) ELSE req

\* The optional headers of materialize, materializeDirect and expand:
\* blacklist, whitelist, accept, accept preference, curies, maximum depth.
relHeaders(c, req) ==
  LET r1 == setIfTruthy(req, "x-cimpress-rel-blacklist", c.blacklistHeader)
      r2 == setIfTruthy(r1, "x-cimpress-rel-whitelist", c.whitelistHeader)
      r3 == setIfTruthy(r2, "accept", c.acceptHeader)
      r4 == setIfTruthy(r3, "x-cimpress-accept-preference", c.acceptPreferenceHeader)
      r5 == setIfTruthy(r4, "x-cimpress-rel-curies", curiesHeader(c))
  IN  setIfTruthy(r5, "x-cimpress-max-depth", c.maximumCrawlDepthHeader)

preferHeader_always(req, preferAsync) == set(req, "prefer", STR_respond_async)

\* if (preferAsync) req.set('prefer', 'respond-async')
preferHeader(req, preferAsync) ==
  IF preferAsync THEN set(req, "prefer", STR_respond_async) ELSE req

\* .timeout({...}).retry(self.numRetries).set('Authorization', ...)
\* .set('Content-Type', 'application/json').set('x-cimpress-link-timeout', self.timeout)
jsonPost(c, url) ==
  set(set(authorize(c, retry(timeout(request("POST", url), c.timeout, c.deadline),
                             c.numRetries)),
          "content-type", STR_application_json),
      "x-cimpress-link-timeout", numberToString(c.timeout))

\* The last element of templateUrl.split('/').
lastPart(templateUrl) ==
  LET parts == split(templateUrl, "/") IN parts[Len(parts)]

\* A slip: only the path before the last segment is compared, not the origin.
_verifyTemplateUrl_pathOnly(c, path, templateUrl) ==
  LET parts == split(templateUrl, "/")
  IN  Len(parts) >= 3 /\ <<"/">> \o parts[Len(parts) - 2] \o <<"/">>
                          \o parts[Len(parts) - 1] = path

\* _verifyTemplateUrl: TRUE when it returns templateUrl, FALSE when it throws.
_verifyTemplateUrl(c, path, templateUrl) ==
  templateUrl = c.baseUrl \o path \o <<"/">> \o lastPart(templateUrl)

\* this._getUrl(`/v1/templates/${encodeURIComponent(templateId)}`)
templateUrlOfId(c, templateId) ==
  _getUrl(c, STR_v1_templates \o <<"/">> \o encodeURIComponent(templateId))

\* deleteTemplateById: this._getUrl(`/v1/templates/${templateId}`)
deleteUrlOfId(c, templateId) ==
  _getUrl(c, STR_v1_templates \o <<"/">> \o templateId)

(***************************************************************************)
(* The request of each operation.                                          *)
(***************************************************************************)
listTemplatesRequest(c, skipCache, includePublic, random) ==
  authorize(c, request("GET",
    _getUrl(c, STR_v1_templates) \o STR_public_eq
    \o (IF includePublic THEN STR_true ELSE STR_false)
    \o (IF skipCache THEN STR_amp_skip_cache \o random ELSE <<>>)))

_getTemplateBodyRequest(c, templateUrl, skipCache, random) ==
  authorize(c, request("GET", templateUrl \o skipCacheQuery(skipCache, random)))

_getTemplateInfoRequest(c, templateUrl, skipCache, random) ==
  set(authorize(c, request("GET", templateUrl \o skipCacheQuery(skipCache, random))),
      "accept", STR_application_json)

\* _createTemplate, past its checks: the request it returns.
_createTemplateRequest(c, templateURL, method, bodyTemplate, contentType, isPublic) ==
  send(set(set(set(authorize(c, request(method, templateURL)),
                   "content-type", contentTypeText(contentType)),
               "x-cimpress-template-public", jsToString(isPublicFlag(isPublic))),
           "accept", STR_application_json),
       IF Truthy(bodyTemplate) THEN bodyTemplate ELSE <<>>)

deleteTemplateRequest(c, templateUrl, skipCache, random) ==
  retry(timeout(authorize(c, request("DELETE",
                  templateUrl \o skipCacheQuery(skipCache, random))),
                c.timeout, c.deadline),
        c.numRetries)

materializeDirectRequest(c, template, propertyBag, skipCache, preferAsync, random) ==
  send(preferHeader(
         setIfTruthy(relHeaders(c, jsonPost(c, _getUrl(c, STR_v1_materializations)
                                               \o skipCacheQuery(skipCache, random))),
                     "x-cimpress-crawler-soft-errors", c.crawlerSoftErrors),
         preferAsync),
       <<"#template">> \o template \o <<"#templatePayload">> \o propertyBag)

_materializeRequest(c, templateUrl, propertyBag, preferAsync, skipCache, random) ==
  LET url == _getUrl(c, STR_v1_templates \o <<"/">> \o lastPart(templateUrl)
                        \o STR_materializations)
      req == jsonPost(c, url \o skipCacheQuery(skipCache, random))
  IN  send(preferHeader(relHeaders(c, IF c.isBinaryResponse THEN blob(req) ELSE req),
                        preferAsync),
           propertyBag)

getMaterializationByIdRequest(c, idMaterialization, skipCache, random) ==
  LET req == request("GET", _getUrl(c, STR_v1_materializations) \o <<"/">>
                            \o idMaterialization \o skipCacheQuery(skipCache, random))
  IN  authorize(c, retry(timeout(IF c.isBinaryResponse THEN blob(req) ELSE req,
                                 c.timeout, c.deadline),
                         c.numRetries))

expandRequest(c, propertyBag, skipCache, random) ==
  send(relHeaders(c, jsonPost(c, _getUrl(c, STR_v1_expand)
                                 \o skipCacheQuery(skipCache, random))),
       propertyBag)

livecheckRequest(c, skipCache, random) ==
  authorize(c, retry(timeout(request("GET", _getUrl(c, <<"/">>) \o STR_livecheck
                                            \o skipCacheQuery(skipCache, random)),
                             c.timeout, c.deadline),
                     c.numRetries))

getSwaggerRequest(c, skipCache, random) ==
  authorize(c, retry(timeout(request("GET", _getUrl(c, STR_v1_swagger)
                                            \o skipCacheQuery(skipCache, random)),
                             c.timeout, c.deadline),
                     c.numRetries))

(***************************************************************************)
(* Errors and results.                                                     *)
(***************************************************************************)
\* An Error object: its constructor name, its status (0: none) and the text
\* of the response it carries (undefined: no response).
Error(name, message) ==
  [kind |-> "error", name |-> name, message |-> message, status |-> 0,
   text |-> Undefined]

InvalidTemplateUrl == Error("Error", "Invalid template URL (format)")

InvalidContentTypeError == Error("Error", "Invalid content type")

InvalidMethodError == Error("Error", "You should pass POST or PUT for the method parameter")

TypeError == Error("TypeError", "TypeError")

\* { status: 404, message: 'Template not found! Empty template ID provided.' }
EmptyTemplateId ==
  [kind |-> "error", name |-> "Object",
   message |-> "Template not found! Empty template ID provided.",
   status |-> 404, text |-> Undefined]

NoValue == [kind |-> "none"]

Value(v) == [kind |-> "value", v |-> v]

\* { status, result }
ResultStruct(status, result) == [kind |-> "struct", status |-> status, result |-> result]

NoCall ==
  [op |-> "none", args |-> <<>>, state |-> "none", value |-> NoValue,
   info |-> NoValue, body |-> NoValue]

(***************************************************************************)
(* The transport: what a response or a failure looks like to the handlers. *)
(***************************************************************************)
\* A response of the server.
Response(status, location, payload) ==
  [kind |-> "response", status |-> status, location |-> location, payload |-> payload]

\* No response at all: connection refused, reset, timed out.
TransportFailure ==
  [kind |-> "failure", status |-> 0, location |-> Undefined, payload |-> Undefined]

\* The transport resolves for a 2xx status and fails for everything else.
isOk(resp) == resp.kind = "response" /\ resp.status >= 200 /\ resp.status < 300

\* res.text: unset when the response was read as a blob.
resText(req, resp) == IF req.responseType = "blob" THEN Undefined ELSE resp.payload

\* res.body: the buffer for a blob, the parsed body otherwise.
resBody(req, resp) ==
  IF req.responseType = "blob" THEN <<"#Buffer">> \o resp.payload
  ELSE <<"#parsed">> \o resp.payload

\* The error the transport hands to the failure handler.
errorOf(resp) ==
  IF resp.kind = "failure"
  THEN [kind |-> "error", name |-> "TransportError", message |-> "transport",
        status |-> 0, text |-> Undefined]
  ELSE [kind |-> "error", name |-> "HttpError", message |-> "http",
        status |-> resp.status, text |-> resp.payload]

\* Whether the transport sends the request again by itself: .retry(count) was
\* called, retries are left, and the failure is a transport failure or a 5xx.
willRetry(r, resp) ==
  /\ r.retries < r.req.maxRetries
  /\ (resp.kind = "failure" \/ resp.status >= 500)

(***************************************************************************)
(* Promises and subsegments.                                               *)
(***************************************************************************)
\* xray.captureAsyncFunc(name, ...): a subsegment, open.
Subsegment(name) == [name |-> name, closed |-> 0, error |-> FALSE]

\* subsegment.close() / subsegment.close(err)
closed(subs, i, withError) ==
  [subs EXCEPT ![i].closed = @ + 1, ![i].error = withError]

\* resolve(v): a promise settles once.
resolved(cl, v) ==
  IF cl.state = "pending" THEN [cl EXCEPT !.state = "resolved", !.value = v] ELSE cl

rejected_translated(cl, e) ==
  IF cl.state = "pending"
  THEN [cl EXCEPT !.state = "rejected",
                  !.value = Error("Error", "Request failed")]
  ELSE cl

\* reject(e)
rejected(cl, e) ==
  IF cl.state = "pending" THEN [cl EXCEPT !.state = "rejected", !.value = e] ELSE cl

\* A new call may start when no call is in progress.
Idle == call.state = "none"

\* The call ends before any request: it throws, or returns a rejected promise.
EndsLocally(op, args, state, error, subs) ==
  /\ call' = [NoCall EXCEPT !.op = op, !.args = args, !.state = state, !.value = error]
  /\ net' = {}
  /\ log' = <<>>
  /\ subsegments' = subs
  /\ answers' = <<>>
  /\ UNCHANGED <<client, setterCalls, constructed>>

Sends_spendsRetry(op, args, names, slots, reqs) ==
  /\ call' = [NoCall EXCEPT !.op = op, !.args = args, !.state = "pending"]
  /\ net' = {[slot |-> slots[i], req |-> reqs[i], retries |-> 0, sub |-> i] :
               i \in 1..Len(reqs)}
  /\ log' = reqs
  /\ subsegments' = [i \in 1..Len(names) |-> Subsegment(names[i])]
  /\ answers' = <<>>
  /\ client' = [client EXCEPT !.numRetries = IF @ > 0 THEN @ - 1 ELSE 0]
  /\ UNCHANGED <<setterCalls, constructed>>

\* The call opens one subsegment per request and sends the requests.
Sends(op, args, names, slots, reqs) ==
  /\ call' = [NoCall EXCEPT !.op = op, !.args = args, !.state = "pending"]
  /\ net' = {[slot |-> slots[i], req |-> reqs[i], retries |-> 0, sub |-> i] :
               i \in 1..Len(reqs)}
  /\ log' = reqs
  /\ subsegments' = [i \in 1..Len(names) |-> Subsegment(names[i])]
  /\ answers' = <<>>
  /\ UNCHANGED <<client, setterCalls, constructed>>

\* The caller has taken the outcome of the call (the value, the rejection or
\* the exception) and every request of the call was answered: the client is
\* ready for the next call.
Returns ==
  /\ call.state \in {"resolved", "rejected", "thrown"}
  /\ net = {}
  /\ call' = NoCall
  /\ log' = <<>>
  /\ subsegments' = <<>>
  /\ answers' = <<>>
  /\ UNCHANGED <<client, net, setterCalls, constructed>>

(***************************************************************************)
(* The setters.  MaxSetterCalls bounds how many are made in one behaviour. *)
(***************************************************************************)
MaxSetterCalls == 3

SetterAllowed == Len(setterCalls) < MaxSetterCalls

\* A setter assigns its field; the call is noted as the client's user made it.
Sets(field, value, name, arguments) ==
  /\ client' = [client EXCEPT ![field] = value]
  /\ setterCalls' = Append(setterCalls, [name |-> name, arguments |-> arguments])
  /\ UNCHANGED <<call, net, log, subsegments, answers, constructed>>

setBlacklistHeader(headerValue) ==
  /\ SetterAllowed
  /\ Sets("blacklistHeader", String(headerValue), "setBlacklistHeader", <<headerValue>>)

setWhitelistHeader(headerValue) ==
  /\ SetterAllowed
  /\ Sets("whitelistHeader", String(headerValue), "setWhitelistHeader", <<headerValue>>)

setAcceptHeader(headerValue) ==
  /\ SetterAllowed
  /\ Sets("acceptHeader", String(headerValue), "setAcceptHeader", <<headerValue>>)

setAcceptPreferenceHeader(headerValue) ==
  /\ SetterAllowed
  /\ Sets("acceptPreferenceHeader", String(headerValue), "setAcceptPreferenceHeader",
          <<headerValue>>)

setCurieHeader(headerValue) ==
  /\ SetterAllowed
  /\ Sets("curieHeader", String(headerValue), "setCurieHeader", <<headerValue>>)

setMaximumCrawlDepthHeader(headerValue) ==
  /\ SetterAllowed
  /\ Sets("maximumCrawlDepthHeader", String(headerValue),
          "setMaximumCrawlDepthHeader", <<headerValue>>)

setCrawlerSoftErrors(headerValue) ==
  /\ SetterAllowed
  /\ Sets("crawlerSoftErrors", String(headerValue), "setCrawlerSoftErrors",
          <<headerValue>>)

handleBinaryResponse(binary) ==
  /\ SetterAllowed
  /\ Sets("isBinaryResponse", binary, "handleBinaryResponse", <<binary>>)

setCurie(rel, replacement) ==
  /\ SetterAllowed
  /\ Sets("curies", setCurieEntry(client.curies, rel, replacement), "setCurie",
          <<rel, replacement>>)

(***************************************************************************)
(* The operations: what a call does before it returns.                     *)
(***************************************************************************)
listTemplates(skipCache, includePublic, random) ==
  /\ Idle
  /\ Sends("listTemplates", [skipCache |-> skipCache, includePublic |-> includePublic],
           <<"Stereotype.listTemplates">>, <<"listTemplates">>,
           <<listTemplatesRequest(client, skipCache, includePublic, random)>>)

\* The body of getTemplate, for a call made as op with arguments args.
getTemplateCall(op, args, templateUrl, skipCache, doNotAddBody, random1, random2) ==
  IF ~Truthy(templateUrl)
  THEN EndsLocally(op, args, "rejected", EmptyTemplateId, <<>>)
  ELSE IF ~_verifyTemplateUrl(client, STR_v1_templates, templateUrl)
  THEN EndsLocally(op, args, "thrown", InvalidTemplateUrl, <<>>)
  ELSE IF doNotAddBody
  THEN Sends(op, args, <<"Stereotype.getTemplateBody">>, <<"info">>,
             <<_getTemplateInfoRequest(client, templateUrl, skipCache, random1)>>)
  ELSE Sends(op, args, <<"Stereotype.getTemplateBody", "Stereotype.getTemplateBody">>,
             <<"info", "body">>,
             <<_getTemplateInfoRequest(client, templateUrl, skipCache, random1),
               _getTemplateBodyRequest(client, templateUrl, skipCache, random2)>>)

getTemplate(templateUrl, skipCache, doNotAddBody, random1, random2) ==
  /\ Idle
  /\ getTemplateCall("getTemplate",
       [templateUrl |-> templateUrl, skipCache |-> skipCache,
        doNotAddBody |-> doNotAddBody],
       templateUrl, skipCache, doNotAddBody, random1, random2)

getTemplateById(templateId, skipCache, doNotAddBody, random1, random2) ==
  /\ Idle
  /\ getTemplateCall("getTemplateById",
       [templateId |-> templateId, skipCache |-> skipCache,
        doNotAddBody |-> doNotAddBody],
       templateUrlOfId(client, templateId), skipCache, doNotAddBody, random1, random2)

\* _createTemplate: it throws, returns a rejected promise, or returns the request.
_createTemplate(c, templateURL, method, bodyTemplate, contentType, isPublic) ==
  IF method \notin {"POST", "PUT"}
  THEN [outcome |-> "reject", error |-> InvalidMethodError]
  ELSE IF parseThrows(contentType)
  THEN [outcome |-> "throw", error |-> TypeError]
  ELSE IF ~_isSupportedContentType(contentType)
  THEN [outcome |-> "reject", error |-> InvalidContentTypeError]
  ELSE IF toStringThrows(isPublicFlag(defaultFalse(isPublic)))
  THEN [outcome |-> "throw", error |-> TypeError]
  ELSE [outcome |-> "request",
        req |-> _createTemplateRequest(c, templateURL, method, bodyTemplate,
                                       contentType, defaultFalse(isPublic))]

\* new Promise(... captureAsyncFunc(name, ... this._createTemplate(...).then().catch())):
\* a throw inside the executor rejects the promise and leaves the subsegment
\* open; a rejected promise is caught, which closes the subsegment.
createsVia(op, args, name, slot, made) ==
  CASE made.outcome = "throw" ->
         EndsLocally(op, args, "rejected", made.error, <<Subsegment(name)>>)
    [] made.outcome = "reject" ->
         EndsLocally(op, args, "rejected", made.error,
                     closed(<<Subsegment(name)>>, 1, TRUE))
    [] made.outcome = "request" ->
         Sends(op, args, <<name>>, <<slot>>, <<made.req>>)

\* The body of putTemplate.
putTemplateCall(op, args, templateUrl, bodyTemplate, contentType, isPublic) ==
  IF ~_verifyTemplateUrl(client, STR_v1_templates, templateUrl)
  THEN EndsLocally(op, args, "thrown", InvalidTemplateUrl, <<>>)
  ELSE createsVia(op, args, "Stereotype.putTemplate", "putTemplate",
         _createTemplate(client, templateUrl, "PUT", bodyTemplate, contentType,
                         defaultFalse(isPublic)))

putTemplate(templateUrl, bodyTemplate, contentType, isPublic, skipCache) ==
  /\ Idle
  /\ putTemplateCall("putTemplate",
       [templateUrl |-> templateUrl, bodyTemplate |-> bodyTemplate,
        contentType |-> contentType, isPublic |-> isPublic, skipCache |-> skipCache],
       templateUrl, bodyTemplate, contentType, isPublic)

putTemplateById(templateId, bodyTemplate, contentType, isPublic, skipCache) ==
  /\ Idle
  /\ putTemplateCall("putTemplateById",
       [templateId |-> templateId, bodyTemplate |-> bodyTemplate,
        contentType |-> contentType, isPublic |-> isPublic, skipCache |-> skipCache],
       templateUrlOfId(client, templateId), bodyTemplate, contentType,
       defaultFalse(isPublic))

createTemplate(bodyTemplate, contentType, isPublic) ==
  /\ Idle
  /\ createsVia("createTemplate",
       [bodyTemplate |-> bodyTemplate, contentType |-> contentType,
        isPublic |-> isPublic],
       "Stereotype.postTemplate", "createTemplate",
       _createTemplate(client, _getUrl(client, STR_v1_templates), "POST",
                       bodyTemplate, contentType, defaultFalse(isPublic)))

\* The body of deleteTemplate.
deleteTemplateCall(op, args, templateUrl, skipCache, random) ==
  IF ~_verifyTemplateUrl(client, STR_v1_templates, templateUrl)
  THEN EndsLocally(op, args, "thrown", InvalidTemplateUrl, <<>>)
  ELSE Sends(op, args, <<"Stereotype.deleteTemplate">>, <<"deleteTemplate">>,
             <<deleteTemplateRequest(client, templateUrl, skipCache, random)>>)

deleteTemplate(templateUrl, skipCache, random) ==
  /\ Idle
  /\ deleteTemplateCall("deleteTemplate",
       [templateUrl |-> templateUrl, skipCache |-> skipCache],
       templateUrl, skipCache, random)

deleteTemplateById(templateId, skipCache, random) ==
  /\ Idle
  /\ deleteTemplateCall("deleteTemplateById",
       [templateId |-> templateId, skipCache |-> skipCache],
       deleteUrlOfId(client, templateId), skipCache, random)

\* _materialize, up to the sending of the request.
_materialize(op, args, templateUrl, propertyBag, preferAsync, skipCache, random) ==
  IF ~_verifyTemplateUrl(client, STR_v1_templates, templateUrl)
  THEN EndsLocally(op, args, "thrown", InvalidTemplateUrl, <<>>)
  ELSE Sends(op, args, <<"Stereotype.materialize">>, <<"materialize">>,
             <<_materializeRequest(client, templateUrl, propertyBag, preferAsync,
                                   skipCache, random)>>)

\* The arguments of a materialize call by URL and by id.
materializeArgs(templateUrl, propertyBag, getMaterializationId, skipCache) ==
  [templateUrl |-> templateUrl, propertyBag |-> propertyBag,
   getMaterializationId |-> getMaterializationId, skipCache |-> skipCache]

materializeByIdArgs(templateId, propertyBag, getMaterializationId, skipCache) ==
  [templateId |-> templateId, propertyBag |-> propertyBag,
   getMaterializationId |-> getMaterializationId, skipCache |-> skipCache]

materializeSyncById(templateId, propertyBag, getMaterializationId, skipCache, random) ==
  /\ Idle
  /\ _materialize("materializeSyncById",
       materializeByIdArgs(templateId, propertyBag, getMaterializationId, skipCache),
       templateUrlOfId(client, templateId), propertyBag, FALSE, skipCache, random)

materializeSync(templateUrl, propertyBag, getMaterializationId, skipCache, random) ==
  /\ Idle
  /\ _materialize("materializeSync",
       materializeArgs(templateUrl, propertyBag, getMaterializationId, skipCache),
       templateUrl, propertyBag, FALSE, skipCache, random)

materializeAsync(templateUrl, propertyBag, getMaterializationId, skipCache, random) ==
  /\ Idle
  /\ _materialize("materializeAsync",
       materializeArgs(templateUrl, propertyBag, getMaterializationId, skipCache),
       templateUrl, propertyBag, TRUE, skipCache, random)

\* materializeSyncById(...).then((resultStruct) => resultStruct.result)
materializeById(templateId, propertyBag, getMaterializationId, skipCache, random) ==
  /\ Idle
  /\ _materialize("materializeById",
       materializeByIdArgs(templateId, propertyBag, getMaterializationId, skipCache),
       templateUrlOfId(client, templateId), propertyBag, FALSE, skipCache, random)

\* materializeSync(...).then((resultStruct) => resultStruct.result)
materialize(templateUrl, propertyBag, getMaterializationId, skipCache, random) ==
  /\ Idle
  /\ _materialize("materialize",
       materializeArgs(templateUrl, propertyBag, getMaterializationId, skipCache),
       templateUrl, propertyBag, FALSE, skipCache, random)

materializeDirect(template, propertyBag, skipCache, preferAsync, random) ==
  /\ Idle
  /\ Sends("materializeDirect",
       [template |-> template, propertyBag |-> propertyBag, skipCache |-> skipCache,
        preferAsync |-> preferAsync],
       <<"Stereotype.materialize">>, <<"materializeDirect">>,
       <<materializeDirectRequest(client, template, propertyBag, skipCache,
                                  preferAsync, random)>>)

getMaterializationById(idMaterialization, skipCache, random) ==
  /\ Idle
  /\ Sends("getMaterializationById",
       [idMaterialization |-> idMaterialization, skipCache |-> skipCache],
       <<"Stereotype.getMaterialization">>, <<"getMaterializationById">>,
       <<getMaterializationByIdRequest(client, idMaterialization, skipCache, random)>>)

expand(propertyBag, skipCache, random) ==
  /\ Idle
  /\ Sends("expand", [propertyBag |-> propertyBag, skipCache |-> skipCache],
       <<"Stereotype.expand">>, <<"expand">>,
       <<expandRequest(client, propertyBag, skipCache, random)>>)

livecheck(skipCache, random) ==
  /\ Idle
  /\ Sends("livecheck", [skipCache |-> skipCache],
       <<"Stereotype.livecheck">>, <<"livecheck">>,
       <<livecheckRequest(client, skipCache, random)>>)

getSwagger(skipCache, random) ==
  /\ Idle
  /\ Sends("getSwagger", [skipCache |-> skipCache],
       <<"Stereotype.getSwagger">>, <<"getSwagger">>,
       <<getSwaggerRequest(client, skipCache, random)>>)

(***************************************************************************)
(* The transport answers: it retries by itself, or it calls the handlers   *)
(* the operation passed to .then() / .catch().                             *)
(***************************************************************************)
\* An answer as the transport hands it to a handler: for which request, and what.
Answer(r, resp) == [slot |-> r.slot, sub |-> r.sub, resp |-> resp]

\* The transport sends the request again (superagent's .retry()).
TransportRetry(resp) ==
  \E r \in net :
  /\ willRetry(r, resp)
  /\ net' = (net \ {r}) \cup {[r EXCEPT !.retries = @ + 1]}
  /\ log' = Append(log, r.req)
  /\ UNCHANGED <<client, call, subsegments, answers, setterCalls, constructed>>

\* The transport hands this answer to the handlers of the request in slot.
Answers(r, resp, slot) == r \in net /\ r.slot = slot /\ ~willRetry(r, resp)

\* The pair of handlers most operations pass to .then():
\*   (res) => { subsegment.close(); resolve(value); }
\*   (err) => { subsegment.close(err); reject(err); }
Settles(r, resp, value) ==
  /\ net' = net \ {r}
  /\ subsegments' = closed(subsegments, r.sub, ~isOk(resp))
  /\ call' = IF isOk(resp) THEN resolved(call, value) ELSE rejected(call, errorOf(resp))
  /\ answers' = Append(answers, Answer(r, resp))
  /\ UNCHANGED <<client, log, setterCalls, constructed>>

listTemplatesResponse(resp) ==
  \E r \in net :
  /\ Answers(r, resp, "listTemplates")
  /\ Settles(r, resp, Value(resBody(r.req, resp)))

\* Base64.encode(text), kept as an encoding that is not the text itself.
Base64_encode(text) == <<"#base64">> \o text

templateOf_plainBody(info, body) ==
  [kind |-> "template", info |-> info.v, templateBody |-> body.v]

\* Object.assign({}, data[0], {templateBody: Base64.encode(data[1])})
templateOf(info, body) ==
  [kind |-> "template", info |-> info.v, templateBody |-> Base64_encode(body.v)]

\* Promise.all([info, body]).then(merge): resolved once both parts are.
allOf(cl) ==
  IF cl.info.kind = "value" /\ cl.body.kind = "value"
  THEN resolved(cl, templateOf(cl.info, cl.body))
  ELSE cl

\* The handlers of _getTemplateInfo: resolve(res.body) / reject(err).
_getTemplateInfoResponse(resp) ==
  \E r \in net :
  /\ Answers(r, resp, "info")
  /\ net' = net \ {r}
  /\ subsegments' = closed(subsegments, r.sub, ~isOk(resp))
  /\ call' = IF ~isOk(resp) THEN rejected(call, errorOf(resp))
             ELSE IF call.args.doNotAddBody
             THEN resolved(call, Value(resBody(r.req, resp)))
             ELSE allOf([call EXCEPT !.info = Value(resBody(r.req, resp))])
  /\ answers' = Append(answers, Answer(r, resp))
  /\ UNCHANGED <<client, log, setterCalls, constructed>>

\* The handlers of _getTemplateBody: resolve(res.text) / reject(err).
_getTemplateBodyResponse(resp) ==
  \E r \in net :
  /\ Answers(r, resp, "body")
  /\ net' = net \ {r}
  /\ subsegments' = closed(subsegments, r.sub, ~isOk(resp))
  /\ call' = IF ~isOk(resp) THEN rejected(call, errorOf(resp))
             ELSE allOf([call EXCEPT !.body = Value(resText(r.req, resp))])
  /\ answers' = Append(answers, Answer(r, resp))
  /\ UNCHANGED <<client, log, setterCalls, constructed>>

putTemplateResponse(resp) ==
  \E r \in net :
  /\ Answers(r, resp, "putTemplate")
  /\ Settles(r, resp, Value(resBody(r.req, resp)))

createTemplateResponse(resp) ==
  \E r \in net :
  /\ Answers(r, resp, "createTemplate")
  /\ Settles(r, resp, Value(resBody(r.req, resp)))

deleteTemplateResponse(resp) ==
  \E r \in net :
  /\ Answers(r, resp, "deleteTemplate")
  /\ Settles(r, resp, Value(resp.status))

materializeDirectResponse(resp) ==
  \E r \in net :
  /\ Answers(r, resp, "materializeDirect")
  /\ Settles(r, resp, ResultStruct(resp.status, resText(r.req, resp)))

preStringLen_withoutSlash == Len(STR_v1) + Len(STR_materializations_slash)

\* 'v1'.length + '/materializations/'.length + 1
preStringLen == Len(STR_v1) + Len(STR_materializations_slash) + 1

materializeResult_asyncFirst(c, getMaterializationId, req, resp) ==
  IF resp.status = 202
  THEN resp.location
  ELSE IF getMaterializationId /\ Truthy(resp.location)
  THEN substring(resp.location, preStringLen)
  ELSE IF c.isBinaryResponse THEN resBody(req, resp) ELSE resText(req, resp)

\* The result field of the struct _materialize resolves with.
materializeResult(c, getMaterializationId, req, resp) ==
  IF getMaterializationId /\ Truthy(resp.location)
  THEN substring(resp.location, preStringLen)
  ELSE IF resp.status = 202
  THEN resp.location
  ELSE IF c.isBinaryResponse THEN resBody(req, resp) ELSE resText(req, resp)

\* What the promise of the call resolves with: materialize and materializeById
\* unwrap the struct, (resultStruct) => resultStruct.result.
materializeValue(op, status, result) ==
  IF op \in {"materialize", "materializeById"}
  THEN Value(result)
  ELSE ResultStruct(status, result)

_materializeResponse(resp) ==
  \E r \in net :
  /\ Answers(r, resp, "materialize")
  /\ Settles(r, resp,
       materializeValue(call.op, resp.status,
         materializeResult(client, call.args.getMaterializationId, r.req, resp)))

getMaterializationByIdResponse(resp) ==
  \E r \in net :
  /\ Answers(r, resp, "getMaterializationById")
  /\ Settles(r, resp,
       Value(IF client.isBinaryResponse THEN resBody(r.req, resp)
             ELSE resText(r.req, resp)))

\* MaxRequests bounds the requests one call sends, the expand retries included.
MaxRequests == 5

\* err.status === 400 && self.numRetries > 0 && isTimeoutError(err)
expandWillRetry(c, resp) ==
  /\ resp.kind = "response"
  /\ resp.status = 400
  /\ c.numRetries > 0
  /\ includes(resp.payload, STR_ESOCKETTIMEDOUT)

\* The handlers of expand: resolve(res.text), or on a timeout signature
\* close the subsegment and resolve(self.expand(propertyBag, skipCache)),
\* a new request in a new subsegment, or reject(err).
expandResponse(resp, random) ==
  \E r \in net :
  /\ Answers(r, resp, "expand")
  /\ IF ~isOk(resp) /\ expandWillRetry(client, resp)
     THEN /\ Len(log) < MaxRequests
          /\ LET again == expandRequest(client, call.args.propertyBag,
                                        call.args.skipCache, random)
             IN  /\ net' = (net \ {r}) \cup
                           {[slot |-> "expand", req |-> again, retries |-> 0,
                             sub |-> Len(subsegments) + 1]}
                 /\ log' = Append(log, again)
                 /\ subsegments' = Append(closed(subsegments, r.sub, TRUE),
                                          Subsegment("Stereotype.expand"))
                 /\ answers' = Append(answers, Answer(r, resp))
                 /\ UNCHANGED <<client, call, setterCalls, constructed>>
     ELSE Settles(r, resp, Value(resText(r.req, resp)))

\* A slip: resolve(true) for every answer the transport takes as a success.
livecheckValue_anySuccess(resp) == TRUE

\* res && res.status == 200
livecheckValue(resp) == resp.status = 200

\* resolve(res && res.status == 200) / reject(err)
livecheckResponse(resp) ==
  \E r \in net :
  /\ Answers(r, resp, "livecheck")
  /\ Settles(r, resp, Value(livecheckValue(resp)))

getSwaggerResponse(resp) ==
  \E r \in net :
  /\ Answers(r, resp, "getSwagger")
  /\ Settles(r, resp, Value(resBody(r.req, resp)))

(***************************************************************************)
(* The inputs the specifications draw from.                                *)
(***************************************************************************)
TOKEN_bearer == <<"B", "e", "a", "r", "e", "r", " ", "t", "k">>

TOKEN_bare == <<"t", "k">>

TOKEN_spaces == <<"T", "o", "k", "e", "n", " ", "a", " ", "b">>

URL_svc_slash == <<"h", "t", "t", "p", "s", ":", "/", "/", "s", "v", "c", ".", "e", "x", "a", "m", "p", "l", "e", "/">>

URL_svc == <<"h", "t", "t", "p", "s", ":", "/", "/", "s", "v", "c", ".", "e", "x", "a", "m", "p", "l", "e">>

URL_evil_foo == <<"h", "t", "t", "p", "s", ":", "/", "/", "e", "v", "i", "l", ".", "e", "x", "a", "m", "p", "l", "e", "/", "v", "1", "/", "t", "e", "m", "p", "l", "a", "t", "e", "s", "/", "f", "o", "o">>

STR_foo == <<"f", "o", "o">>

STR_slash_foo == <<"/", "f", "o", "o">>

STR_slash_foo_bar == <<"/", "f", "o", "o", "/", "b", "a", "r">>

STR_v2_templates_foo == <<"/", "v", "2", "/", "t", "e", "m", "p", "l", "a", "t", "e", "s", "/", "f", "o", "o">>

ID_a_slash_b == <<"a", "/", "b">>

STR_random == <<"0", ".", "5">>

STR_body == <<"b", "o", "d", "y">>

STR_hello == <<"H", "e", "l", "l", "o">>

STR_timedout == <<"E", "r", "r", "o", "r", ":", " ", "E", "S", "O", "C", "K", "E", "T", "T", "I", "M", "E", "D", "O", "U", "T">>

STR_location_m1 == <<"/", "v", "1", "/", "m", "a", "t", "e", "r", "i", "a", "l", "i", "z", "a", "t", "i", "o", "n", "s", "/", "m", "1">>

STR_m1 == <<"m", "1">>

STR_text_plain == <<"t", "e", "x", "t", "/", "p", "l", "a", "i", "n">>

STR_Text_Mustache == <<"T", "e", "x", "t", "/", "M", "u", "s", "t", "a", "c", "h", "e">>

STR_charset == <<"c", "h", "a", "r", "s", "e", "t">>

STR_utf8 == <<"u", "t", "f", "-", "8">>

STR_postProcessor == <<"p", "o", "s", "t", "P", "r", "o", "c", "e", "s", "s", "o", "r">>

STR_postProcessors == <<"p", "o", "s", "t", "P", "r", "o", "c", "e", "s", "s", "o", "r", "s">>

STR_xlsx_spaced == <<" ", "X", "L", "S", "X", " ">>

STR_xml == <<"x", "m", "l">>

STR_True == <<"T", "r", "u", "e">>

STR_False == <<"F", "a", "l", "s", "e">>

STR_TRUE == <<"T", "R", "U", "E">>

\* Constructor tokens: with a scheme prefix, bare, with two spaces, empty.
AccessTokens == {TOKEN_bearer, TOKEN_bare, TOKEN_spaces, <<>>}

NoOptions == [key \in {} |-> Undefined]

\* Constructor options: none, and a base URL with a trailing slash.
OptionSets == {NoOptions, [baseUrl |-> URL_svc_slash]}

\* Template URLs given to the by-URL operations: under each base URL the URL
\* of template foo, a deeper path, another path of the service and the
\* templates path with an empty last segment; a bare name, a URL of another
\* origin and the empty string.
TemplateUrlsUnder(baseUrl) ==
  {baseUrl \o STR_v1_templates \o STR_slash_foo,
   baseUrl \o STR_v1_templates \o STR_slash_foo_bar,
   baseUrl \o STR_v2_templates_foo,
   baseUrl \o STR_v1_templates \o <<"/">>}

TemplateUrls ==
  TemplateUrlsUnder(URL_svc)
    \cup {defaultConf_baseUrl \o STR_v1_templates \o STR_slash_foo,
          STR_foo, URL_evil_foo, <<>>}

TemplateIds == {STR_foo, ID_a_slash_b, <<>>}

\* Values of Math.random(), as text.
Randoms == {STR_random}

PropertyBags == {<<"{", "}">>}

TemplateBodies == {STR_body, Null}

MaterializationIds == {STR_m1}

\* What the server may answer: 2xx with and without a Location header, 4xx
\* with and without the timeout signature, 5xx, and no answer at all.
Responses ==
  {Response(200, Undefined, STR_hello),
   Response(201, STR_location_m1, STR_hello),
   Response(202, STR_location_m1, <<>>),
   Response(204, Undefined, <<>>),
   Response(400, Undefined, STR_timedout),
   Response(403, Undefined, STR_hello),
   Response(500, Undefined, STR_hello),
   TransportFailure}

\* Content types of the general specification.
SomeContentTypes ==
  {ContentType(STR_text_mustache, <<>>), ContentType(STR_text_plain, <<>>),
   NullContentType}

\* Values of the isPublic argument: booleans, strings in several cases, a
\* number, null, and the argument left out.
SomeIsPublic ==
  {JsBoolean(TRUE), JsBoolean(FALSE), JsUndefined, JsNull, JsNumber(0),
   JsString(STR_true), JsString(STR_True), JsString(STR_TRUE),
   JsString(STR_false), JsString(STR_False)}

(***************************************************************************)
(* Spec: a client constructed with any token and options, every operation  *)
(* with a few arguments, and every answer of the server.                   *)
(***************************************************************************)
InitWith(accessTokens, optionSets) ==
  /\ constructed \in [accessToken : accessTokens, options : optionSets]
  /\ client = StereotypeClient(constructed.accessToken, constructed.options)
  /\ call = NoCall
  /\ net = {}
  /\ log = <<>>
  /\ subsegments = <<>>
  /\ answers = <<>>
  /\ setterCalls = <<>>

Init == InitWith(AccessTokens, OptionSets)

Reads ==
  \E skipCache \in BOOLEAN, random \in Randoms :
    \/ \E includePublic \in BOOLEAN : listTemplates(skipCache, includePublic, random)
    \/ \E templateUrl \in TemplateUrls, doNotAddBody \in BOOLEAN :
         getTemplate(templateUrl, skipCache, doNotAddBody, random, random)
    \/ \E templateId \in TemplateIds, doNotAddBody \in BOOLEAN :
         getTemplateById(templateId, skipCache, doNotAddBody, random, random)
    \/ \E id \in MaterializationIds : getMaterializationById(id, skipCache, random)
    \/ livecheck(skipCache, random)
    \/ getSwagger(skipCache, random)

Writes ==
  \E bodyTemplate \in TemplateBodies, contentType \in SomeContentTypes,
     isPublic \in SomeIsPublic, skipCache \in BOOLEAN, random \in Randoms :
    \/ \E templateUrl \in TemplateUrls :
         putTemplate(templateUrl, bodyTemplate, contentType, isPublic, skipCache)
    \/ \E templateId \in TemplateIds :
         putTemplateById(templateId, bodyTemplate, contentType, isPublic, skipCache)
    \/ createTemplate(bodyTemplate, contentType, isPublic)
    \/ \E templateUrl \in TemplateUrls :
         deleteTemplate(templateUrl, skipCache, random)
    \/ \E templateId \in TemplateIds : deleteTemplateById(templateId, skipCache, random)

Materializes ==
  \E propertyBag \in PropertyBags, getMaterializationId \in BOOLEAN,
     skipCache \in BOOLEAN, random \in Randoms :
    \/ \E templateUrl \in TemplateUrls :
         \/ materialize(templateUrl, propertyBag, getMaterializationId, skipCache, random)
         \/ materializeSync(templateUrl, propertyBag, getMaterializationId, skipCache,
                            random)
         \/ materializeAsync(templateUrl, propertyBag, getMaterializationId, skipCache,
                             random)
    \/ \E templateId \in TemplateIds :
         \/ materializeById(templateId, propertyBag, getMaterializationId, skipCache,
                            random)
         \/ materializeSyncById(templateId, propertyBag, getMaterializationId,
                                skipCache, random)
    \/ \E preferAsync \in BOOLEAN :
         materializeDirect(STR_body, propertyBag, skipCache, preferAsync, random)
    \/ expand(propertyBag, skipCache, random)

Handlers ==
  \E resp \in Responses :
    \/ TransportRetry(resp)
    \/ listTemplatesResponse(resp)
    \/ _getTemplateInfoResponse(resp)
    \/ _getTemplateBodyResponse(resp)
    \/ putTemplateResponse(resp)
    \/ createTemplateResponse(resp)
    \/ deleteTemplateResponse(resp)
    \/ materializeDirectResponse(resp)
    \/ _materializeResponse(resp)
    \/ getMaterializationByIdResponse(resp)
    \/ \E random \in Randoms : expandResponse(resp, random)
    \/ livecheckResponse(resp)
    \/ getSwaggerResponse(resp)

Next == Reads \/ Writes \/ Materializes \/ Handlers \/ Returns

Spec == Init /\ [][Next]_vars

(***************************************************************************)
(* SpecContentTypes: put and create calls over content types with every    *)
(* list of up to MaxTokens post-processor tokens, quoted and unquoted,     *)
(* under the postprocessors name and under other names.                    *)
(***************************************************************************)
MaxTokens == 2

\* The tokens a post-processor list is made of: supported, supported in
\* another case and with spaces around, unsupported, empty.
RawTokens == {STR_mjml, STR_xlsx_spaced, STR_xml, <<>>}

PostProcessorValues ==
  {join(tokens, <<",">>) :
     tokens \in UNION {[1..n -> RawTokens] : n \in 1..MaxTokens}}

ParameterLists ==
  {<<>>, <<Param(STR_charset, STR_utf8, FALSE)>>}
    \cup UNION {{<<Param(STR_postprocessors, value, quoted)>>,
                 <<Param(STR_postProcessors, value, quoted),
                   Param(STR_charset, STR_utf8, FALSE)>>,
                 <<Param(STR_postProcessor, value, quoted)>>} :
                  value \in PostProcessorValues, quoted \in BOOLEAN}

ContentTypes ==
  {NullContentType, InvalidContentType}
    \cup {ContentType(type, parameters) :
            type \in {STR_text_mustache, STR_Text_Mustache, STR_edie_json,
                      STR_text_plain},
            parameters \in ParameterLists}

InitContentTypes == InitWith({TOKEN_bare}, {[baseUrl |-> URL_svc_slash]})

\* Values of isPublic of the content type calls.
ContentTypeIsPublic == {JsUndefined, JsBoolean(TRUE), JsNull}

NextContentTypes ==
  \/ /\ Idle
     /\ \E contentType \in ContentTypes, isPublic \in ContentTypeIsPublic,
           templateUrl \in {URL_svc \o STR_v1_templates \o STR_slash_foo, STR_foo} :
          putTemplate(templateUrl, STR_body, contentType, isPublic, FALSE)
  \/ /\ Idle
     /\ \E contentType \in ContentTypes, isPublic \in ContentTypeIsPublic :
          putTemplateById(STR_foo, STR_body, contentType, isPublic, FALSE)
  \/ /\ Idle
     /\ \E contentType \in ContentTypes, isPublic \in ContentTypeIsPublic :
          createTemplate(STR_body, contentType, isPublic)
  \/ \E resp \in {Response(200, Undefined, STR_hello),
                   Response(403, Undefined, STR_hello), TransportFailure} :
       \/ putTemplateResponse(resp)
       \/ createTemplateResponse(resp)
  \/ Returns

SpecContentTypes == InitContentTypes /\ [][NextContentTypes]_vars

(***************************************************************************)
(* SpecMaterialize: the materialize calls of a client whose binary         *)
(* response setting is given at construction and changed by                *)
(* handleBinaryResponse, answered with and without a Location header.      *)
(***************************************************************************)
STR_location_empty_id == STR_v1_materializations \o <<"/">>

STR_location_absolute == URL_svc \o STR_location_m1

MaterializeResponses ==
  {Response(200, Undefined, STR_hello),
   Response(200, STR_location_m1, STR_hello),
   Response(201, STR_location_m1, <<>>),
   Response(201, STR_location_empty_id, STR_hello),
   Response(202, STR_location_m1, STR_hello),
   Response(202, Undefined, STR_hello),
   Response(202, STR_location_absolute, <<>>),
   Response(204, <<>>, <<>>),
   Response(500, STR_location_m1, STR_hello),
   TransportFailure}

InitMaterialize ==
  InitWith({TOKEN_bare},
           {[baseUrl |-> URL_svc_slash],
            [baseUrl |-> URL_svc_slash, isBinaryResponse |-> TRUE]})

NextMaterialize ==
  \/ \E binary \in BOOLEAN : handleBinaryResponse(binary)
  \/ \E getMaterializationId \in BOOLEAN, propertyBag \in PropertyBags,
        random \in Randoms :
       \/ \E templateUrl \in {URL_svc \o STR_v1_templates \o STR_slash_foo} :
            \/ materialize(templateUrl, propertyBag, getMaterializationId, FALSE,
                           random)
            \/ materializeSync(templateUrl, propertyBag, getMaterializationId, FALSE,
                               random)
            \/ materializeAsync(templateUrl, propertyBag, getMaterializationId, FALSE,
                                random)
       \/ \E templateId \in {STR_foo} :
            \/ materializeById(templateId, propertyBag, getMaterializationId, FALSE,
                               random)
            \/ materializeSyncById(templateId, propertyBag, getMaterializationId,
                                   FALSE, random)
  \/ \E resp \in MaterializeResponses :
       \/ TransportRetry(resp)
       \/ _materializeResponse(resp)
  \/ Returns

SpecMaterialize == InitMaterialize /\ [][NextMaterialize]_vars

(***************************************************************************)
(* SpecCuries: setCurie and setCurieHeader called between the calls, and   *)
(* the operations that send the curies header.                             *)
(***************************************************************************)
STR_a == <<"a">>

STR_b == <<"b">>

STR_1 == <<"1">>

STR_x == <<"x">>

STR_y == <<"y">>

STR_c_z == <<"c", ";", "z">>

\* The curies set: a, b and the integer-like relation 1; a is set to two values.
Curies == {<<STR_a, STR_x>>, <<STR_a, STR_y>>, <<STR_b, STR_y>>, <<STR_1, STR_x>>}

\* Arguments of setCurieHeader: a header, and the empty string.
CurieHeaders == {STR_c_z, <<>>}

CurieResponses ==
  {Response(200, Undefined, STR_hello), Response(400, Undefined, STR_timedout),
   Response(500, Undefined, STR_hello)}

InitCuries == InitWith({TOKEN_bare}, {[baseUrl |-> URL_svc_slash]})

NextCuries ==
  \/ /\ Idle
     /\ \E curie \in Curies : setCurie(curie[1], curie[2])
  \/ /\ Idle
     /\ \E headerValue \in CurieHeaders : setCurieHeader(headerValue)
  \/ \E propertyBag \in PropertyBags, random \in Randoms :
       \/ materialize(URL_svc \o STR_v1_templates \o STR_slash_foo, propertyBag, FALSE,
                      FALSE, random)
       \/ materializeDirect(STR_body, propertyBag, FALSE, FALSE, random)
       \/ expand(propertyBag, FALSE, random)
  \/ \E resp \in CurieResponses :
       \/ TransportRetry(resp)
       \/ _materializeResponse(resp)
       \/ materializeDirectResponse(resp)
       \/ \E random \in Randoms : expandResponse(resp, random)
  \/ Returns

SpecCuries == InitCuries /\ [][NextCuries]_vars

(***************************************************************************)
(* SpecGetTemplate: getTemplate and getTemplateById, each request with a   *)
(* Math.random() of its own, the two answers in either order.              *)
(***************************************************************************)
STR_random_2 == <<"0", ".", "7">>

GetTemplateRandoms == {STR_random, STR_random_2}

GetTemplateResponses ==
  {Response(200, Undefined, STR_hello), Response(200, Undefined, STR_body),
   Response(403, Undefined, STR_hello), TransportFailure}

InitGetTemplate == InitWith({TOKEN_bare}, {[baseUrl |-> URL_svc_slash]})

NextGetTemplate ==
  \/ \E skipCache \in BOOLEAN, doNotAddBody \in BOOLEAN,
        random1 \in GetTemplateRandoms, random2 \in GetTemplateRandoms :
       \/ \E templateUrl \in {URL_svc \o STR_v1_templates \o STR_slash_foo,
                               URL_evil_foo, <<>>} :
            getTemplate(templateUrl, skipCache, doNotAddBody, random1, random2)
       \/ \E templateId \in {STR_foo, ID_a_slash_b} :
            getTemplateById(templateId, skipCache, doNotAddBody, random1, random2)
  \/ \E resp \in GetTemplateResponses :
       \/ _getTemplateInfoResponse(resp)
       \/ _getTemplateBodyResponse(resp)
  \/ Returns

SpecGetTemplate == InitGetTemplate /\ [][NextGetTemplate]_vars

(***************************************************************************)
(* SpecHeaders: the setters of the optional headers, called with a value   *)
(* or with the empty string, before the materialize operations,            *)
(* materializeDirect and expand.                                           *)
(***************************************************************************)
HeaderValues == {STR_x, <<>>}

HeaderResponses ==
  {Response(200, Undefined, STR_hello), Response(403, Undefined, STR_hello)}

InitHeaders == InitWith({TOKEN_bare}, {[baseUrl |-> URL_svc_slash]})

NextHeaders ==
  \/ /\ Idle
     /\ \E headerValue \in HeaderValues : setBlacklistHeader(headerValue)
  \/ /\ Idle
     /\ setWhitelistHeader(STR_x)
  \/ /\ Idle
     /\ setAcceptHeader(STR_text_plain)
  \/ /\ Idle
     /\ setAcceptPreferenceHeader(STR_x)
  \/ /\ Idle
     /\ setMaximumCrawlDepthHeader(STR_1)
  \/ /\ Idle
     /\ setCrawlerSoftErrors(STR_true)
  \/ \E propertyBag \in PropertyBags :
       \/ materialize(URL_svc \o STR_v1_templates \o STR_slash_foo, propertyBag,
                      FALSE, FALSE, STR_random)
       \/ materializeById(STR_foo, propertyBag, FALSE, FALSE, STR_random)
       \/ materializeSync(URL_svc \o STR_v1_templates \o STR_slash_foo, propertyBag,
                          FALSE, FALSE, STR_random)
       \/ materializeSyncById(STR_foo, propertyBag, FALSE, FALSE, STR_random)
       \/ materializeAsync(URL_svc \o STR_v1_templates \o STR_slash_foo, propertyBag,
                           FALSE, FALSE, STR_random)
       \/ \E preferAsync \in BOOLEAN :
            materializeDirect(STR_body, propertyBag, FALSE, preferAsync, STR_random)
       \/ expand(propertyBag, FALSE, STR_random)
  \/ \E resp \in HeaderResponses :
       \/ _materializeResponse(resp)
       \/ materializeDirectResponse(resp)
       \/ expandResponse(resp, STR_random)
  \/ Returns

SpecHeaders == InitHeaders /\ [][NextHeaders]_vars

(***************************************************************************)
(* SpecSetters: setters and every operation in turn, on one client, with   *)
(* answers that resolve, reject and are retried.                           *)
(***************************************************************************)
SetterResponses ==
  {Response(201, STR_location_m1, STR_hello),
   Response(400, Undefined, STR_timedout),
   Response(500, Undefined, STR_hello)}

URL_foo == URL_svc \o STR_v1_templates \o STR_slash_foo

InitSetters == InitWith({TOKEN_bare}, {[baseUrl |-> URL_svc_slash]})

NextSetters ==
  \/ /\ Idle
     /\ \E binary \in BOOLEAN : handleBinaryResponse(binary)
  \/ /\ Idle
     /\ setCurie(STR_a, STR_x)
  \/ /\ Idle
     /\ setCurieHeader(STR_c_z)
  \/ /\ Idle
     /\ setAcceptHeader(STR_text_plain)
  \/ listTemplates(FALSE, TRUE, STR_random)
  \/ \E templateUrl \in {URL_foo, URL_evil_foo} :
       getTemplate(templateUrl, FALSE, FALSE, STR_random, STR_random)
  \/ getTemplateById(STR_foo, FALSE, TRUE, STR_random, STR_random)
  \/ getMaterializationById(STR_m1, FALSE, STR_random)
  \/ livecheck(FALSE, STR_random)
  \/ getSwagger(FALSE, STR_random)
  \/ \E contentType \in {ContentType(STR_text_mustache, <<>>), NullContentType} :
       \/ putTemplate(URL_foo, STR_body, contentType, JsBoolean(TRUE), FALSE)
       \/ putTemplateById(STR_foo, STR_body, contentType, JsBoolean(TRUE), FALSE)
       \/ createTemplate(STR_body, contentType, JsBoolean(TRUE))
  \/ deleteTemplate(URL_foo, FALSE, STR_random)
  \/ deleteTemplateById(STR_foo, FALSE, STR_random)
  \/ \E propertyBag \in PropertyBags :
       \/ materialize(URL_foo, propertyBag, FALSE, FALSE, STR_random)
       \/ materializeSync(URL_foo, propertyBag, TRUE, FALSE, STR_random)
       \/ materializeAsync(URL_foo, propertyBag, FALSE, FALSE, STR_random)
       \/ materializeById(STR_foo, propertyBag, FALSE, FALSE, STR_random)
       \/ materializeSyncById(STR_foo, propertyBag, FALSE, FALSE, STR_random)
       \/ materializeDirect(STR_body, propertyBag, FALSE, TRUE, STR_random)
       \/ expand(propertyBag, FALSE, STR_random)
  \/ \E resp \in SetterResponses :
       \/ TransportRetry(resp)
       \/ listTemplatesResponse(resp)
       \/ _getTemplateInfoResponse(resp)
       \/ _getTemplateBodyResponse(resp)
       \/ putTemplateResponse(resp)
       \/ createTemplateResponse(resp)
       \/ deleteTemplateResponse(resp)
       \/ materializeDirectResponse(resp)
       \/ _materializeResponse(resp)
       \/ getMaterializationByIdResponse(resp)
       \/ expandResponse(resp, STR_random)
       \/ livecheckResponse(resp)
       \/ getSwaggerResponse(resp)
  \/ Returns

SpecSetters == InitSetters /\ [][NextSetters]_vars

(***************************************************************************)
(* SpecOptions: clients constructed with and without the options timeout,  *)
(* deadline and numRetries, zero among the values, and the requests of     *)
(* materialize, expand and livecheck.                                      *)
(***************************************************************************)
NumericOptionSets ==
  {NoOptions,
   [timeout |-> 0], [timeout |-> 100],
   [deadline |-> 0], [deadline |-> 200],
   [numRetries |-> 0], [numRetries |-> 1],
   [baseUrl |-> URL_svc_slash, timeout |-> 100, deadline |-> 200, numRetries |-> 1],
   [baseUrl |-> URL_svc_slash, timeout |-> 0, deadline |-> 0, numRetries |-> 0]}

OptionResponses ==
  {Response(200, Undefined, STR_hello), Response(500, Undefined, STR_hello)}

InitOptions == InitWith({TOKEN_bare}, NumericOptionSets)

NextOptions ==
  \/ \E propertyBag \in PropertyBags :
       \/ materializeById(STR_foo, propertyBag, FALSE, FALSE, STR_random)
       \/ expand(propertyBag, FALSE, STR_random)
  \/ livecheck(FALSE, STR_random)
  \/ \E resp \in OptionResponses :
       \/ TransportRetry(resp)
       \/ _materializeResponse(resp)
       \/ expandResponse(resp, STR_random)
       \/ livecheckResponse(resp)
  \/ Returns

SpecOptions == InitOptions /\ [][NextOptions]_vars

(***************************************************************************)
(* The earlier version of the client: putTemplate and expand that take a   *)
(* template id, with the URLs and body types of its conf module.           *)
(***************************************************************************)
\* BASE_URL + VERSION + '/templates/'
conf_TEMPLATES_URL == defaultConf_baseUrl \o STR_v1_templates \o <<"/">>

\* BASE_URL + VERSION + EXPAND
conf_EXPAND_URL == defaultConf_baseUrl \o STR_v1_expand

conf_BODY_TYPES == <<STR_text_dust, STR_text_mustache, STR_text_handlebars>>

DEFAULT_TIMEOUT == 5000

\* for (let key in conf.BODY_TYPES) if (conf.BODY_TYPES[key] === bodyType) return true;
_isSupportedBodyType(bodyType) ==
  \E key \in 1..Len(conf_BODY_TYPES) : conf_BODY_TYPES[key] = bodyType

\* The fields the earlier constructor and setters leave on the object.
legacy_StereotypeClient(accessToken) ==
  [accessToken |-> stripTokenPrefix(accessToken),
   curies |-> <<>>,
   blacklistHeader |-> Undefined,
   whitelistHeader |-> Undefined,
   acceptPreferenceHeader |-> Undefined,
   curieHeader |-> Undefined]

\* request.put(conf.TEMPLATES_URL + idTemplate + ...).set(...).send(bodyTemplate || '')
legacy_putTemplateRequest(c, idTemplate, bodyTemplate, contentType, isPublic, skipCache, now) ==
  send(set(set(authorize(c, request("PUT", conf_TEMPLATES_URL \o idTemplate
                                           \o skipCacheQuery(skipCache, now))),
               "content-type", contentType),
           "x-cimpress-template-public", IF isPublic THEN STR_true ELSE STR_false),
       IF Truthy(bodyTemplate) THEN bodyTemplate ELSE <<>>)

\* putTemplate of the earlier version: on an unsupported body type it closes
\* the subsegment and rejects, and, without a return, goes on to send the
\* request.
legacy_putTemplate(idTemplate, bodyTemplate, contentType, isPublic, skipCache, now) ==
  /\ Idle
  /\ LET supported == _isSupportedBodyType(contentType)
         req == legacy_putTemplateRequest(client, idTemplate, bodyTemplate,
                                          contentType, isPublic, skipCache, now)
         started == [NoCall EXCEPT !.op = "legacy_putTemplate",
                                   !.args = [idTemplate |-> idTemplate,
                                             bodyTemplate |-> bodyTemplate,
                                             contentType |-> contentType,
                                             isPublic |-> isPublic,
                                             skipCache |-> skipCache],
                                   !.state = "pending"]
     IN  /\ call' = IF supported THEN started
                    ELSE rejected(started, InvalidContentTypeError)
         /\ subsegments' = IF supported THEN <<Subsegment("Stereotype.putTemplate")>>
                           ELSE closed(<<Subsegment("Stereotype.putTemplate")>>, 1, TRUE)
         /\ net' = {[slot |-> "legacy_putTemplate", req |-> req, retries |-> 0,
                     sub |-> 1]}
         /\ log' = <<req>>
  /\ answers' = <<>>
  /\ UNCHANGED <<client, setterCalls, constructed>>

\* (res) => { subsegment.close(); resolve(res.status); }
\* (err) => { subsegment.close(err); reject(err); }
legacy_putTemplateResponse(resp) ==
  \E r \in net :
  /\ Answers(r, resp, "legacy_putTemplate")
  /\ Settles(r, resp, Value(resp.status))

\* Number(timeout) > 0 ? Number(timeout) : DEFAULT_TIMEOUT
legacy_linkTimeout(linkTimeout) == IF linkTimeout > 0 THEN linkTimeout ELSE DEFAULT_TIMEOUT

legacy_expandRequest(c, propertyBag, linkTimeout, skipCache, now) ==
  LET req == set(set(authorize(c, request("POST", conf_EXPAND_URL
                                            \o skipCacheQuery(skipCache, now))),
                     "content-type", STR_application_json),
                 "x-cimpress-link-timeout",
                 numberToString(legacy_linkTimeout(linkTimeout)))
      r1 == setIfTruthy(req, "x-cimpress-rel-blacklist", c.blacklistHeader)
      r2 == setIfTruthy(r1, "x-cimpress-rel-whitelist", c.whitelistHeader)
      r3 == setIfTruthy(r2, "x-cimpress-accept-preference", c.acceptPreferenceHeader)
  IN  send(setIfTruthy(r3, "x-cimpress-rel-curies", curiesHeader(c)), propertyBag)

legacy_expand(propertyBag, linkTimeout, numberOfRetries, skipCache, now) ==
  /\ Idle
  /\ Sends("legacy_expand",
           [propertyBag |-> propertyBag, timeout |-> linkTimeout,
            numberOfRetries |-> numberOfRetries, skipCache |-> skipCache],
           <<"Stereotype.expand">>, <<"legacy_expand">>,
           <<legacy_expandRequest(client, propertyBag, linkTimeout, skipCache, now)>>)

\* err.response.body is read as an array: findIndex is a function of arrays
\* only.  The parsed body is kept as its text; a body that opens with '['
\* is an array.
legacy_isArray(payload) == Truthy(payload) /\ Head(payload) = "["

\* err.response.body.findIndex((e) => e.expandedMessage.includes('ESOCKETTIMEDOUT')) !== -1
legacy_isTimeoutError(resp) == includes(resp.payload, STR_ESOCKETTIMEDOUT)

\* The handlers of the earlier expand.  On a failure with status 400 and
\* retries left, isTimeoutError is called: it throws a TypeError when the
\* body is not an array, and when it finds the signature the handler closes
\* the subsegment and evaluates expand(propertyBag, timeout,
\* numberOfRetries - 1), a free identifier that is not defined in the module
\* (the method is self.expand): a ReferenceError.  An exception thrown in
\* the handler is lost in the promise of the request chain, and neither
\* resolve nor reject of the returned promise is called.
legacy_expandResponse(resp) ==
  \E r \in net :
  /\ Answers(r, resp, "legacy_expand")
  /\ IF /\ ~isOk(resp)
        /\ resp.kind = "response"
        /\ resp.status = 400
        /\ call.args.numberOfRetries > 0
        /\ (~legacy_isArray(resp.payload) \/ legacy_isTimeoutError(resp))
     THEN /\ net' = net \ {r}
          /\ subsegments' = IF legacy_isArray(resp.payload)
                            THEN closed(subsegments, r.sub, TRUE)
                            ELSE subsegments
          /\ answers' = Append(answers, Answer(r, resp))
          /\ UNCHANGED <<client, call, log, setterCalls, constructed>>
     ELSE Settles(r, resp, Value(resText(r.req, resp)))

(***************************************************************************)
(* SpecLegacy: the earlier putTemplate and expand.                         *)
(***************************************************************************)
STR_now == <<"1", "7">>

STR_timeout_errors == <<"[">> \o STR_ESOCKETTIMEDOUT \o <<"]">>

STR_other_errors == <<"[", "E", "N", "O", "T", "F", "O", "U", "N", "D", "]">>

LegacyResponses ==
  {Response(200, Undefined, STR_hello),
   Response(400, Undefined, STR_timeout_errors),
   Response(400, Undefined, STR_other_errors),
   Response(400, Undefined, STR_hello),
   Response(500, Undefined, STR_timeout_errors),
   TransportFailure}

LegacyContentTypes == {STR_text_mustache, STR_text_handlebars, STR_text_plain}

MaxNumberOfRetries == 2

InitLegacy ==
  /\ constructed \in [accessToken : {TOKEN_bare, TOKEN_bearer}, options : {NoOptions}]
  /\ client = legacy_StereotypeClient(constructed.accessToken)
  /\ call = NoCall
  /\ net = {}
  /\ log = <<>>
  /\ subsegments = <<>>
  /\ answers = <<>>
  /\ setterCalls = <<>>

NextLegacy ==
  \/ \E bodyTemplate \in TemplateBodies, contentType \in LegacyContentTypes,
        isPublic \in BOOLEAN, skipCache \in BOOLEAN :
       legacy_putTemplate(STR_foo, bodyTemplate, contentType, isPublic, skipCache,
                          STR_now)
  \/ \E propertyBag \in PropertyBags, linkTimeout \in {0, DEFAULT_TIMEOUT},
        numberOfRetries \in 0..MaxNumberOfRetries, skipCache \in BOOLEAN :
       legacy_expand(propertyBag, linkTimeout, numberOfRetries, skipCache, STR_now)
  \/ \E resp \in LegacyResponses :
       \/ legacy_putTemplateResponse(resp)
       \/ legacy_expandResponse(resp)
  \/ Returns

SpecLegacy == InitLegacy /\ [][NextLegacy]_vars

(***************************************************************************)
(* SpecInFlight: setters called at any moment, also between the sending of *)
(* a request and its answer, around materializeSync,                       *)
(* getMaterializationById and expand.                                      *)
(***************************************************************************)
InFlightResponses ==
  {Response(200, Undefined, STR_hello),
   Response(400, Undefined, STR_timedout),
   Response(500, Undefined, STR_hello)}

InitInFlight == InitWith({TOKEN_bare}, {[baseUrl |-> URL_svc_slash]})

NextInFlight ==
  \/ \E binary \in BOOLEAN : handleBinaryResponse(binary)
  \/ setAcceptHeader(STR_text_plain)
  \/ \E propertyBag \in PropertyBags :
       \/ materializeSync(URL_svc \o STR_v1_templates \o STR_slash_foo, propertyBag,
                          FALSE, FALSE, STR_random)
       \/ expand(propertyBag, FALSE, STR_random)
  \/ getMaterializationById(STR_m1, FALSE, STR_random)
  \/ \E resp \in InFlightResponses :
       \/ TransportRetry(resp)
       \/ _materializeResponse(resp)
       \/ getMaterializationByIdResponse(resp)
       \/ expandResponse(resp, STR_random)
  \/ Returns

SpecInFlight == InitInFlight /\ [][NextInFlight]_vars

(***************************************************************************)
(* Vocabulary of the properties.                                           *)
(***************************************************************************)
Settled == call.state \in {"resolved", "rejected", "thrown"}

\* The call failed without the server: it threw or its promise was rejected,
\* and the transport was given no request.
FailedLocally ==
  /\ call.state \in {"rejected", "thrown"}
  /\ log = <<>>
  /\ net = {}
  /\ answers = <<>>

\* The token without everything up to and including its first space; the
\* whole token when it has no space.
RECURSIVE afterFirstSpace(_)
afterFirstSpace(token) ==
  IF \A i \in 1..Len(token) : token[i] # " " THEN token
  ELSE IF Head(token) = " " THEN Tail(token)
  ELSE afterFirstSpace(Tail(token))

\* The last '/'-separated segment of a URL.
RECURSIVE lastSegment(_)
lastSegment(url) ==
  IF \A i \in 1..Len(url) : url[i] # "/" THEN url ELSE lastSegment(Tail(url))

ByUrlOperations ==
  {"getTemplate", "putTemplate", "deleteTemplate", "materialize", "materializeSync",
   "materializeAsync"}

\* The last answer handed to a handler of the call.
lastAnswer == answers[Len(answers)].resp

MaterializeOperations ==
  {"materialize", "materializeById", "materializeSync", "materializeAsync",
   "materializeSyncById"}

\* The result of a materialize call that resolved: the value itself for
\* materialize and materializeById, the result field of { status, result }
\* for the others.
resultOf(value) == IF value.kind = "struct" THEN value.result ELSE value.v

IdLocationPrefix == STR_v1_materializations \o <<"/">>

\* The Location header is /v1/materializations/<id>.
IsIdLocation(location) ==
  /\ Len(location) >= Len(IdLocationPrefix)
  /\ SubSeq(location, 1, Len(IdLocationPrefix)) = IdLocationPrefix

\* What follows the first Len('/v1/materializations/') characters.
afterIdLocationPrefix(location) ==
  IF Len(location) <= Len(IdLocationPrefix) THEN <<>>
  ELSE SubSeq(location, Len(IdLocationPrefix) + 1, Len(location))

\* The operations that send the x-cimpress-rel-curies header.
CurieOperations == MaterializeOperations \cup {"materializeDirect", "expand"}

\* The setter calls made so far under one name.
callsOf(name) == SelectSeq(setterCalls, LAMBDA c : c.name = name)

\* A map after put(key, value): a key already there keeps its place, a new
\* key goes last.
mapPut(entries, key, value) ==
  IF \E i \in 1..Len(entries) : entries[i][1] = key
  THEN [i \in 1..Len(entries) |->
          IF entries[i][1] = key THEN <<key, value>> ELSE entries[i]]
  ELSE Append(entries, <<key, value>>)

\* The curie map in insertion order after these setCurie calls.
RECURSIVE curieMapAfter(_)
curieMapAfter(calls) ==
  IF calls = <<>> THEN <<>>
  ELSE LET last == calls[Len(calls)]
       IN  mapPut(curieMapAfter(SubSeq(calls, 1, Len(calls) - 1)),
                  last.arguments[1], last.arguments[2])

\* key;value of every entry, joined with commas.
renderedCuries(entries) ==
  join([i \in 1..Len(entries) |-> entries[i][1] \o <<";">> \o entries[i][2]], <<",">>)

PutAndCreateOperations == {"putTemplate", "putTemplateById", "createTemplate"}

\* The template URL of the call is the one the client builds for its last segment.
UrlMatches ==
  call.args.templateUrl
    = client.baseUrl \o STR_v1_templates \o <<"/">> \o lastSegment(call.args.templateUrl)

\* A put or create call that got as far as the content type: putTemplate
\* with a matching URL, putTemplateById, createTemplate.
ReachesContentType ==
  /\ call.op \in PutAndCreateOperations
  /\ call.op = "putTemplate" => UrlMatches

SupportedTypes ==
  {STR_text_dust, STR_text_mustache, STR_text_handlebars,
   STR_text_x_handlebars_template, STR_edie_json, STR_ediecsv_json}

\* The base media type of the content type argument is a supported one
\* (media types compare without regard to case).
BaseTypeSupported(ct) ==
  ct.form = "valid" /\ toLowerCase(trim(ct.type)) \in SupportedTypes

\* The content type is a well-formed header value with a supported base
\* type and a postprocessors parameter.
CarriesPostProcessors(ct) ==
  /\ BaseTypeSupported(ct)
  /\ ~parseThrows(ct)
  /\ \E i \in 1..Len(ct.parameters) :
       toLowerCase(ct.parameters[i].key) = STR_postprocessors

\* The comma-separated tokens of the postprocessors parameter, lower-cased
\* and trimmed.
PostProcessorTokens(ct) ==
  LET i == CHOOSE k \in 1..Len(ct.parameters) :
             /\ toLowerCase(ct.parameters[k].key) = STR_postprocessors
             /\ \A j \in (k + 1)..Len(ct.parameters) :
                  toLowerCase(ct.parameters[j].key) # STR_postprocessors
      parts == split(ct.parameters[i].value, ",")
  IN  {trim(toLowerCase(parts[k])) : k \in 1..Len(parts)}

(***************************************************************************)
(* C1.  Every request the transport sends, for every operation, the        *)
(* retried requests included, carries Authorization: 'Bearer ' + T, T      *)
(* being the constructor token after its first space, or the whole token   *)
(* when it has no space.                                                   *)
(***************************************************************************)
C1_AuthorizationOnEveryRequest ==
  \A i \in 1..Len(log) :
    log[i].headers["authorization"]
      = STR_Bearer \o afterFirstSpace(constructed.accessToken)

\* An expand call that was sent twice, by a client whose token has two spaces.
C1_Witness ==
  /\ call.op = "expand"
  /\ Len(log) >= 2
  /\ constructed.accessToken = TOKEN_spaces
  /\ log[2].headers["authorization"] = STR_Bearer \o <<"a", " ", "b">>

C4_PublicHeader ==
  (call.op \in PutAndCreateOperations /\ log # <<>>) =>
    \A i \in 1..Len(log) :
      LET isPublic == call.args.isPublic
          sent == log[i].headers["x-cimpress-template-public"]
      IN  /\ isPublic \in {JsBoolean(TRUE), JsString(STR_true), JsString(STR_True)}
               => sent = STR_true
          /\ isPublic \in {JsUndefined, JsBoolean(FALSE), JsString(STR_false),
                           JsString(STR_False)}
               => sent = STR_false

\* createTemplate with isPublic "True" sent the header "true".
C4_Witness ==
  /\ call.op = "createTemplate"
  /\ call.args.isPublic = JsString(STR_True)
  /\ Len(log) = 1
  /\ log[1].method = "POST"
  /\ log[1].headers["x-cimpress-template-public"] = STR_true

(***************************************************************************)
(* C5.  A materialize call (materialize, materializeById, materializeSync, *)
(* materializeAsync, materializeSyncById) made with getMaterializationId   *)
(* true whose successful answer carries Location:                          *)
(* /v1/materializations/<id> resolves, and its result is exactly <id>,     *)
(* whatever the status and the body of the answer are.                     *)
(***************************************************************************)
C5_MaterializationId ==
  (/\ call.op \in MaterializeOperations
   /\ call.args.getMaterializationId
   /\ answers # <<>>
   /\ isOk(lastAnswer)
   /\ IsIdLocation(lastAnswer.location))
    => /\ call.state = "resolved"
       /\ resultOf(call.value) = afterIdLocationPrefix(lastAnswer.location)
       /\ call.value.kind = "struct" => call.value.status = lastAnswer.status

\* materializeSync asking for the id resolved { status: 200, result: 'm1' }
\* for an answer 200 with a body and Location /v1/materializations/m1.
C5_Witness ==
  /\ call.op = "materializeSync"
  /\ call.args.getMaterializationId
  /\ answers # <<>>
  /\ lastAnswer = Response(200, STR_location_m1, STR_hello)
  /\ call.value = ResultStruct(200, STR_m1)

(***************************************************************************)
(* C6.  As claimed: a materialize request answered with status 202         *)
(* resolves the call with the raw Location header value as its result,     *)
(* for every getMaterializationId, preferAsync and binary setting.         *)
(***************************************************************************)
C6_Original ==
  (/\ call.op \in MaterializeOperations
   /\ answers # <<>>
   /\ lastAnswer.kind = "response"
   /\ lastAnswer.status = 202)
    => /\ call.state = "resolved"
       /\ resultOf(call.value) = lastAnswer.location

(***************************************************************************)
(* C6, amended.  A materialize request answered with status 202 resolves   *)
(* the call, for every preferAsync and binary setting, and never with the  *)
(* response body: with getMaterializationId false, or without a Location   *)
(* header, the result is the raw Location header value (undefined when     *)
(* there is none); with getMaterializationId true and a Location header    *)
(* the result is that value without its first 21 characters, the           *)
(* materialization id.                                                     *)
(***************************************************************************)
C6_AcceptedResult ==
  (/\ call.op \in MaterializeOperations
   /\ answers # <<>>
   /\ lastAnswer.kind = "response"
   /\ lastAnswer.status = 202)
    => /\ call.state = "resolved"
       /\ resultOf(call.value)
            = IF call.args.getMaterializationId /\ lastAnswer.location # Undefined
              THEN afterIdLocationPrefix(lastAnswer.location)
              ELSE lastAnswer.location

\* materializeAsync not asking for the id, by a client set to binary
\* responses, resolved { status: 202, result: the Location } for a 202
\* that had a body.
C6_Witness ==
  /\ call.op = "materializeAsync"
  /\ ~call.args.getMaterializationId
  /\ client.isBinaryResponse
  /\ answers # <<>>
  /\ lastAnswer = Response(202, STR_location_m1, STR_hello)
  /\ call.value = ResultStruct(202, STR_location_m1)
  /\ log[1].headers["prefer"] = STR_respond_async

(***************************************************************************)
(* C7.  As claimed: livecheck resolves to true exactly when the status is  *)
(* 200, and for every other status and every transport failure it rejects. *)
(***************************************************************************)
C7_Original ==
  (call.op = "livecheck" /\ Settled) =>
    /\ (call.state = "resolved" /\ call.value = Value(TRUE))
         <=> (lastAnswer.kind = "response" /\ lastAnswer.status = 200)
    /\ ~(lastAnswer.kind = "response" /\ lastAnswer.status = 200)
         => call.state = "rejected"

(***************************************************************************)
(* C7, amended.  livecheck resolves to true exactly when the status is     *)
(* 200; it resolves to false for any other 2xx status; it rejects for      *)
(* every status outside 2xx and for every transport failure, also after    *)
(* the transport has used up its retries.  It settles only on an answer.   *)
(***************************************************************************)
C7_LivecheckOutcome ==
  call.op = "livecheck" =>
    /\ call.state = "pending" <=> answers = <<>>
    /\ Settled =>
         LET a == lastAnswer
             is2xx == a.kind = "response" /\ a.status \in 200..299
         IN  /\ (is2xx /\ a.status = 200) =>
                  (call.state = "resolved" /\ call.value = Value(TRUE))
             /\ (is2xx /\ a.status # 200) =>
                  (call.state = "resolved" /\ call.value = Value(FALSE))
             /\ ~is2xx => call.state = "rejected"

\* livecheck rejected for a 500 after the request was sent 1 + numRetries times.
C7_Witness ==
  /\ call.op = "livecheck"
  /\ call.state = "rejected"
  /\ lastAnswer.status = 500
  /\ Len(log) = 1 + client.numRetries

(***************************************************************************)
(* C8.  As claimed: after any sequence of setCurie and setCurieHeader      *)
(* calls, the x-cimpress-rel-curies header of a materialize,               *)
(* materializeDirect or expand request is the string given to the last     *)
(* setCurieHeader call whenever setCurieHeader was called, whatever its    *)
(* argument; otherwise the entries of the curie map as key;value in        *)
(* insertion order joined with commas; and absent when neither was set.    *)
(***************************************************************************)
C8_CuriesHeader ==
  call.op \in CurieOperations =>
    \A i \in 1..Len(log) :
      LET headers == callsOf("setCurieHeader")
          curies == callsOf("setCurie")
      IN  log[i].headers["x-cimpress-rel-curies"]
            = IF headers # <<>> THEN String(headers[Len(headers)].arguments[1])
              ELSE IF curies # <<>> THEN renderedCuries(curieMapAfter(curies))
              ELSE Undefined

C10_PutByName ==
  (/\ constructed.options = [baseUrl |-> URL_svc_slash]
   /\ call.op = "putTemplate"
   /\ call.args.templateUrl = STR_foo
   /\ call.args.bodyTemplate = STR_body
   /\ call.args.contentType = ContentType(STR_text_mustache, <<>>)
   /\ call.args.isPublic = JsBoolean(TRUE))
    => /\ Len(log) >= 1
       /\ log[1].method = "PUT"
       /\ log[1].url = URL_svc \o STR_v1_templates \o STR_slash_foo
       /\ log[1].headers["x-cimpress-template-public"] = STR_true
       /\ (answers # <<>> /\ lastAnswer.status = 201) => call.state = "resolved"

(***************************************************************************)
(* C11.  As claimed: reading a template with an empty template id,         *)
(* through getTemplate('') as well as through getTemplateById(''),         *)
(* rejects with { status: 404, message: 'Template not found! Empty         *)
(* template ID provided.' } and issues no HTTP request.                    *)
(***************************************************************************)
C11_EmptyTemplateId ==
  (\/ call.op = "getTemplate" /\ call.args.templateUrl = <<>>
   \/ call.op = "getTemplateById" /\ call.args.templateId = <<>>)
    => /\ call.state = "rejected"
       /\ call.value = EmptyTemplateId
       /\ log = <<>>

(***************************************************************************)
(* C12.  As claimed: for one expand call the requests re-issued by the     *)
(* client after a 400 answer with the ESOCKETTIMEDOUT signature number at  *)
(* most the configured retry count; a 400 without the signature, or any    *)
(* other error, rejects the call without a retry.                          *)
(***************************************************************************)
\* Every request expand re-issues is sent in a subsegment of its own.
reissuedRequests == Len(subsegments) - 1

C12_ExpandRetryBudget ==
  call.op = "expand" =>
    /\ reissuedRequests <= client.numRetries
    /\ (/\ answers # <<>>
        /\ ~isOk(lastAnswer)
        /\ ~(/\ lastAnswer.kind = "response"
             /\ lastAnswer.status = 400
             /\ includes(lastAnswer.payload, STR_ESOCKETTIMEDOUT)))
         => call.state = "rejected"

(***************************************************************************)
(* C13.  getTemplate and getTemplateById that get past the local checks:   *)
(* without doNotAddBody exactly two GET requests are issued for the        *)
(* template URL (each followed by ?skip_cache=<random> when skipCache is   *)
(* set), the first with Accept: application/json and the second without;   *)
(* in whatever order the answers arrive the call resolves, once both are   *)
(* successes, to the metadata extended with templateBody = Base64(body     *)
(* text), it is rejected as soon as one of them is a failure and is never  *)
(* resolved then; with doNotAddBody only the metadata request is issued    *)
(* and the call resolves to its body.                                      *)
(***************************************************************************)
GetTemplateOperations == {"getTemplate", "getTemplateById"}

\* The template URL the call reads.
readTemplateUrl ==
  IF call.op = "getTemplate" THEN call.args.templateUrl
  ELSE client.baseUrl \o STR_v1_templates \o <<"/">>
       \o encodeURIComponent(call.args.templateId)

\* The URL of a request is the template URL, with a cache-busting query of
\* its own when skipCache is set.
IsReadOf(req, templateUrl, skipCache) ==
  /\ req.method = "GET"
  /\ IF skipCache
     THEN \E random \in GetTemplateRandoms :
            req.url = templateUrl \o STR_skip_cache \o random
     ELSE req.url = templateUrl

\* The answers given so far to the request sent in a slot.
answersTo(slot) == SelectSeq(answers, LAMBDA a : a.slot = slot)

someAnswerFailed == \E i \in 1..Len(answers) : ~isOk(answers[i].resp)

CreatedResource(status, templateId) ==
  [kind |-> "created", status |-> status, templateId |-> templateId]

C14_CreatedResource ==
  (call.op = "createTemplate" /\ call.state = "resolved") =>
    call.value = CreatedResource(lastAnswer.status, lastSegment(lastAnswer.location))

(***************************************************************************)
(* C15.  As claimed: no call of a public operation ends in an exception    *)
(* thrown out of the call; a call that fails before any request is sent    *)
(* has returned a promise, and that promise is rejected.                   *)
(***************************************************************************)
C15_LocalFailuresReject ==
  /\ call.state # "thrown"
  /\ FailedLocally => call.state = "rejected"

(***************************************************************************)
(* C16.  As claimed: every request of a materialize operation, of          *)
(* materializeDirect and of expand carries each optional header, with the  *)
(* value given to the matching setter the last time it was called, when    *)
(* that setter was called before the operation, and does not carry the     *)
(* header when the setter was never called.                                *)
(***************************************************************************)
OptionalHeaders ==
  {<<"x-cimpress-rel-blacklist", "setBlacklistHeader">>,
   <<"x-cimpress-rel-whitelist", "setWhitelistHeader">>,
   <<"accept", "setAcceptHeader">>,
   <<"x-cimpress-accept-preference", "setAcceptPreferenceHeader">>,
   <<"x-cimpress-max-depth", "setMaximumCrawlDepthHeader">>,
   <<"x-cimpress-crawler-soft-errors", "setCrawlerSoftErrors">>}

\* The value last given to a setter; undefined when it was never called.
configured(setter) ==
  LET calls == callsOf(setter)
  IN  IF calls = <<>> THEN Undefined ELSE calls[Len(calls)].arguments[1]

C16_OptionalHeaders ==
  call.op \in CurieOperations =>
    \A i \in 1..Len(log) : \A h \in OptionalHeaders :
      log[i].headers[h[1]] = configured(h[2])

(***************************************************************************)
(* C17.  A materialization request carries Prefer: respond-async exactly   *)
(* when asynchronous materialization was asked for: every request of       *)
(* materializeAsync and of materializeDirect with preferAsync = true       *)
(* carries it, and no request of materialize, materializeById,             *)
(* materializeSync, materializeSyncById or of materializeDirect with       *)
(* preferAsync = false does.                                               *)
(***************************************************************************)
asynchronousRequested ==
  \/ call.op = "materializeAsync"
  \/ call.op = "materializeDirect" /\ call.args.preferAsync

C17_PreferRespondAsync ==
  call.op \in MaterializeOperations \cup {"materializeDirect"} =>
    \A i \in 1..Len(log) :
      log[i].headers["prefer"]
        = IF asynchronousRequested THEN STR_respond_async ELSE Undefined

\* materializeDirect with preferAsync = true, answered, after a setter call.
C17_Witness ==
  /\ call.op = "materializeDirect"
  /\ call.args.preferAsync
  /\ setterCalls # <<>>
  /\ Len(log) = 1
  /\ log[1].headers["prefer"] = STR_respond_async
  /\ call.state = "resolved"

(***************************************************************************)
(* C18.  As claimed: the transport-level retry is configured on GET        *)
(* requests only; no PUT, POST or DELETE request is set up to be sent      *)
(* again by the transport, and the transport has sent none again.          *)
(***************************************************************************)
C18_RetryOnReadsOnly ==
  /\ \A i \in 1..Len(log) : log[i].method # "GET" => log[i].maxRetries = 0
  /\ \A r \in net : r.req.method # "GET" => r.retries = 0

(***************************************************************************)
(* C19.  Once the transport has handed a failure to a handler of the call  *)
(* (a response outside 2xx or a transport error, after the transport's own *)
(* retries, and other than a timeout answer that expand retries), the      *)
(* promise of the call is rejected with the error of the first such        *)
(* failure, status and text unchanged, and it is not resolved afterwards.  *)
(***************************************************************************)
\* A 400 with the timeout signature, which expand answers by a new request.
isExpandTimeoutRetry(resp) ==
  /\ call.op = "expand"
  /\ client.numRetries > 0
  /\ resp.kind = "response"
  /\ resp.status = 400
  /\ includes(resp.payload, STR_ESOCKETTIMEDOUT)

\* The positions of the failures handed to the handlers of the call.
failures ==
  {i \in 1..Len(answers) :
     ~isOk(answers[i].resp) /\ ~isExpandTimeoutRetry(answers[i].resp)}

firstFailure == CHOOSE i \in failures : \A j \in failures : i <= j

C19_FailureRejects ==
  failures # {} =>
    /\ call.state = "rejected"
    /\ call.value = errorOf(answers[firstFailure].resp)

\* getTemplate: the metadata request answered 403, then the body request
\* answered 200; the call stays rejected with the 403.
C19_Witness ==
  /\ call.op = "getTemplate"
  /\ Len(answers) = 2
  /\ answers[1].resp = Response(403, Undefined, STR_hello)
  /\ isOk(answers[2].resp)
  /\ call.state = "rejected"
  /\ call.value.status = 403
  /\ call.value.text = STR_hello

(***************************************************************************)
(* C20.  The stored state of the client (token, base URL, timeout,         *)
(* deadline, retry count, binary flag, optional header values, curie map)  *)
(* changes only in a step that is a call of a setter: no step of a request *)
(* operation (the call itself, a retry, an answer that resolves or rejects *)
(* it, its return) changes any of it.                                      *)
(***************************************************************************)
C20_OnlySettersChangeClient ==
  [][client' # client =>
       /\ Len(setterCalls') = Len(setterCalls) + 1
       /\ UNCHANGED <<call, net, log, answers>>]_vars

\* After setter calls, an expand that was re-issued and has then resolved:
\* the client is still the constructed one with the setters' values.
C20_Witness ==
  /\ Len(setterCalls) = 2
  /\ setterCalls[1].name = "setCurieHeader"
  /\ setterCalls[2].name = "handleBinaryResponse"
  /\ call.op = "expand"
  /\ Len(log) > 1
  /\ call.state = "resolved"
  /\ client = [StereotypeClient(constructed.accessToken, constructed.options)
                 EXCEPT !.curieHeader = STR_c_z,
                        !.isBinaryResponse = setterCalls[2].arguments[1]]

(***************************************************************************)
(* C21.  As claimed: putTemplate and putTemplateById called without a body *)
(* and without a content type (both null, isPublic a boolean or left out), *)
(* on a template URL that passes verification, issue one PUT request with  *)
(* an empty body that carries x-cimpress-template-public, and do not fail  *)
(* before a request is sent.                                               *)
(***************************************************************************)
C21_PermissionsOnlyPut ==
  (/\ call.op \in {"putTemplate", "putTemplateById"}
   /\ call.args.bodyTemplate = Null
   /\ call.args.contentType = NullContentType
   /\ call.args.isPublic \in {JsUndefined, JsBoolean(TRUE), JsBoolean(FALSE)}
   /\ call.state # "thrown")
    => /\ ~FailedLocally
       /\ Len(log) = 1
       /\ log[1].method = "PUT"
       /\ log[1].body = <<>>
       /\ log[1].headers["x-cimpress-template-public"] \in {STR_true, STR_false}

(***************************************************************************)
(* C22.  As claimed: the response timeout, the deadline and the retry      *)
(* count of every request, and the x-cimpress-link-timeout header, are the *)
(* values of the constructor options timeout, deadline and numRetries      *)
(* whenever the key was given, 0 included, and 5000, 60000 and 3 only when *)
(* the key was left out; a baseUrl option that ends in '/' is stored       *)
(* without that slash.                                                     *)
(***************************************************************************)
\* The option as supplied, the default when the key is missing.
suppliedOr(key, default) ==
  IF key \in DOMAIN constructed.options THEN constructed.options[key] ELSE default

C22_OptionsAsSupplied ==
  /\ \A i \in 1..Len(log) :
       /\ log[i].response = suppliedOr("timeout", 5000)
       /\ log[i].deadline = suppliedOr("deadline", 60000)
       /\ log[i].maxRetries = suppliedOr("numRetries", 3)
       /\ log[i].method = "POST" =>
            log[i].headers["x-cimpress-link-timeout"]
              = numberToString(suppliedOr("timeout", 5000))
  /\ "baseUrl" \in DOMAIN constructed.options =>
       client.baseUrl \o <<"/">> = constructed.options.baseUrl

(***************************************************************************)
(* C23.  As claimed, for the earlier putTemplate(idTemplate, ...): a call  *)
(* with a content type that is not a supported body type is rejected and   *)
(* no request is issued for it.                                            *)
(***************************************************************************)
C23_LegacyPutRejectsBeforeRequest ==
  (/\ call.op = "legacy_putTemplate"
   /\ ~_isSupportedBodyType(call.args.contentType))
    => /\ call.state = "rejected"
       /\ call.value = InvalidContentTypeError
       /\ log = <<>>

(***************************************************************************)
(* C24.  As claimed, for the earlier expand(propertyBag, timeout,          *)
(* numberOfRetries): the request is issued again at most numberOfRetries   *)
(* times, and once the transport has answered and no request of the call   *)
(* is outstanding the returned promise is settled.                         *)
(***************************************************************************)
C24_LegacyExpandSettles ==
  call.op = "legacy_expand" =>
    /\ Len(log) - 1 <= call.args.numberOfRetries
    /\ (answers # <<>> /\ net = {}) => call.state \in {"resolved", "rejected"}

(***************************************************************************)
(* C25.  As claimed: whatever the isPublic argument is (a boolean, a       *)
(* string, a number, null, or left out), a put or create call with a       *)
(* supported content type, on a URL that passes verification, sends a      *)
(* request whose x-cimpress-template-public header is "true" or "false",   *)
(* and "true" only for boolean true and for a string equal to 'true'       *)
(* ignoring case.                                                          *)
(***************************************************************************)
C25_PublicHeaderIsBoolean ==
  (/\ call.op \in PutAndCreateOperations
   /\ call.args.contentType = ContentType(STR_text_mustache, <<>>)
   /\ call.state # "thrown")
    => /\ Len(log) = 1
       /\ log[1].headers["x-cimpress-template-public"] \in {STR_true, STR_false}
       /\ log[1].headers["x-cimpress-template-public"] = STR_true
            => call.args.isPublic \in {JsBoolean(TRUE), JsString(STR_true),
                                       JsString(STR_True), JsString(STR_TRUE)}

(***************************************************************************)
(* C26.  As claimed: when materializeSync or getMaterializationById        *)
(* resolves to the body of the answer, the body is in the representation   *)
(* of the response type the request was sent with, the buffer res.body for *)
(* a request sent with responseType blob and the text res.text otherwise,  *)
(* also when handleBinaryResponse was called between the request and its   *)
(* answer.                                                                 *)
(***************************************************************************)
\* The body of the last answer as the response type of the request gives it.
bodyAsRequested ==
  IF log[1].responseType = "blob"
  THEN <<"#Buffer">> \o lastAnswer.payload
  ELSE lastAnswer.payload

C26_BodyMatchesResponseType ==
  /\ (call.op = "getMaterializationById" /\ call.state = "resolved")
       => call.value = Value(bodyAsRequested)
  /\ (call.op = "materializeSync" /\ call.state = "resolved")
       => call.value = ResultStruct(lastAnswer.status, bodyAsRequested)

(***************************************************************************)
(* C27.  As claimed: every request issued for one call, the requests the   *)
(* transport sends again and the requests an expand retry issues included, *)
(* carries the headers and the response type computed from the client as   *)
(* it was when the operation was called; a setter called while the call is *)
(* in flight changes none of them.                                         *)
(***************************************************************************)
C27_RequestsFromCallTimeConfiguration ==
  \A i \in 1..Len(log) :
    /\ log[i].headers = log[1].headers
    /\ log[i].responseType = log[1].responseType

(***************************************************************************)
(* C28.  As claimed, for the operations that open one subsegment per       *)
(* request they issue in turn (every operation but the template reads,     *)
(* which run two requests side by side): when the promise of a call that   *)
(* opened a subsegment is settled, every subsegment the call opened has    *)
(* been closed exactly once, and the last one was closed with an error     *)
(* exactly when the call is rejected.                                      *)
(***************************************************************************)
C28_SubsegmentClosedOnce ==
  (/\ call.op \notin GetTemplateOperations
   /\ call.state \in {"resolved", "rejected"}
   /\ subsegments # <<>>)
    => /\ \A i \in 1..Len(subsegments) : subsegments[i].closed = 1
       /\ subsegments[Len(subsegments)].error <=> call.state = "rejected"

(***************************************************************************)
(* C29.  As claimed: for every template id the by-id operations            *)
(* (getTemplateById, putTemplateById, deleteTemplateById, materializeById, *)
(* materializeSyncById) pass the URL verification alike, none of them      *)
(* throwing where the others go on, and every request they issue is for    *)
(* baseUrl + '/v1/templates/' + encodeURIComponent(id), followed by        *)
(* '/materializations' for the materialize operations.                     *)
(***************************************************************************)
ByIdOperations ==
  {"getTemplateById", "putTemplateById", "deleteTemplateById", "materializeById",
   "materializeSyncById"}

prefixOf(s, prefix) ==
  Len(s) >= Len(prefix) /\ SubSeq(s, 1, Len(prefix)) = prefix

\* The URL of the resource of an id, as the operation addresses it.
resourceOfId(op, templateId) ==
  client.baseUrl \o STR_v1_templates \o <<"/">> \o encodeURIComponent(templateId)
    \o (IF op \in MaterializeOperations THEN STR_materializations ELSE <<>>)

C29_ByIdSameResource ==
  (call.op \in ByIdOperations /\ call.args.templateId # <<>>) =>
    /\ call.state # "thrown"
    /\ \A i \in 1..Len(log) :
         prefixOf(log[i].url, resourceOfId(call.op, call.args.templateId))

(***************************************************************************)
(* C30.  As claimed: whatever string is passed as the template URL to      *)
(* getTemplate, putTemplate, deleteTemplate or a materialize operation,    *)
(* the URL of every request of the call is the configured base URL and     *)
(* '/v1/templates/' followed by exactly one path segment, not empty and    *)
(* without a '/', and by '/materializations' for the materialize           *)
(* operations (the cache-busting query aside).                             *)
(***************************************************************************)
RECURSIVE beforeQuery(_)
\* The URL up to its query.
beforeQuery(url) ==
  IF url = <<>> \/ Head(url) = "?" THEN <<>>
  ELSE <<Head(url)>> \o beforeQuery(Tail(url))

\* What follows a prefix of a string.
afterPrefix(s, prefix) == SubSeq(s, Len(prefix) + 1, Len(s))

\* A string without a suffix it ends in.
beforeSuffix(s, suffix) == SubSeq(s, 1, Len(s) - Len(suffix))

suffixOf(s, suffix) ==
  Len(s) >= Len(suffix) /\ SubSeq(s, Len(s) - Len(suffix) + 1, Len(s)) = suffix

IsOneSegment(segment) ==
  segment # <<>> /\ \A i \in 1..Len(segment) : segment[i] # "/"

IsTemplateResource(op, url) ==
  LET templates == client.baseUrl \o STR_v1_templates \o <<"/">>
      path == beforeQuery(url)
  IN  /\ prefixOf(path, templates)
      /\ IF op \in MaterializeOperations
         THEN /\ suffixOf(afterPrefix(path, templates), STR_materializations)
              /\ IsOneSegment(beforeSuffix(afterPrefix(path, templates),
                                           STR_materializations))
         ELSE IsOneSegment(afterPrefix(path, templates))

C30_RequestsStayUnderTemplates ==
  call.op \in ByUrlOperations =>
    \A i \in 1..Len(log) : IsTemplateResource(call.op, log[i].url)

====
